---- MODULE Spec2Model ----
(***************************************************************************)
(* axm-init check engine: registry of audit predicates, CheckEngine.run,   *)
(* and the scoring model (CheckResult, CategoryScore, ProjectResult).      *)
(***************************************************************************)
EXTENDS Integers, Sequences, FiniteSets, TLC

(***************************************************************************)
(* Bounds of the exploration.                                              *)
(***************************************************************************)
MaxChecks == 2
MaxEdits == 1

(***************************************************************************)
(* Binary64 arithmetic, as far as `total_earned / total_weight * 100` and  *)
(* round() use it.  A float is zero (m1 = m2 = m3 = 0) or a normalised     *)
(* 53-bit mantissa M = m1 * 2^36 + m2 * 2^18 + m3 with 2^52 <= M < 2^53,  *)
(* of value M * 2^(exp - 52).  Operands stay below 2^13, so every          *)
(* intermediate product fits the checker's integers.                       *)
(***************************************************************************)
MantissaBits == 53
LimbBits == 18

RECURSIVE Pow2(_)
Pow2(n) == IF n = 0 THEN 1 ELSE 2 * Pow2(n - 1)

LIMB == Pow2(LimbBits)
TopBits == MantissaBits - 2 * LimbBits

Float(m1, m2, m3, exp) == [m1 |-> m1, m2 |-> m2, m3 |-> m3, exp |-> exp]

FloatZero == Float(0, 0, 0, 0)

\* Round-to-nearest, ties-to-even: cmp compares the discarded tail with half
\* a unit in the last place of the kept mantissa.
RoundNearestEven(m1, m2, m3, cmp, exp) ==
    IF cmp > 0 \/ (cmp = 0 /\ m3 % 2 = 1)
    THEN IF m3 + 1 < LIMB THEN Float(m1, m2, m3 + 1, exp)
         ELSE IF m2 + 1 < LIMB THEN Float(m1, m2 + 1, 0, exp)
         ELSE IF m1 + 1 < Pow2(TopBits) THEN Float(m1 + 1, 0, 0, exp)
         ELSE Float(Pow2(TopBits - 1), 0, 0, exp + 1)
    ELSE Float(m1, m2, m3, exp)

\* int / int (true division) for 0 <= a <= b, 0 < b < 2^13: the correctly
\* rounded quotient.
float_truediv(a, b) ==
    IF a = 0 THEN FloatZero
    ELSE LET s == CHOOSE k \in 0..13 :
                     a * Pow2(k) >= b /\ (k = 0 \/ a * Pow2(k - 1) < b)
             r0 == a * Pow2(s) - b
             d1 == (r0 * Pow2(TopBits - 1)) \div b
             r1 == (r0 * Pow2(TopBits - 1)) % b
             d2 == (r1 * LIMB) \div b
             r2 == (r1 * LIMB) % b
             d3 == (r2 * LIMB) \div b
             r3 == (r2 * LIMB) % b
             cmp == IF 2 * r3 > b THEN 1 ELSE IF 2 * r3 = b THEN 0 ELSE -1
         IN RoundNearestEven(Pow2(TopBits - 1) + d1, d2, d3, cmp, -s)

\* float * c for an int 0 < c < 2^13: the exact product, rounded.
float_mul(x, c) ==
    IF x.m1 = 0 THEN FloatZero
    ELSE LET t3 == x.m3 * c
             t2 == x.m2 * c + t3 \div LIMB
             p1 == x.m1 * c + t2 \div LIMB
             p2 == t2 % LIMB
             p3 == t3 % LIMB
             k == (CHOOSE n \in 0..31 : p1 < Pow2(n) /\ (n = 0 \/ p1 >= Pow2(n - 1)))
                      - TopBits
             tail == p3 % Pow2(k)
             cmp == IF k = 0 \/ tail < Pow2(k - 1) THEN -1
                    ELSE IF tail > Pow2(k - 1) THEN 1 ELSE 0
         IN RoundNearestEven(p1 \div Pow2(k),
                             p2 \div Pow2(k) + (p1 % Pow2(k)) * Pow2(LimbBits - k),
                             p3 \div Pow2(k) + (p2 % Pow2(k)) * Pow2(LimbBits - k),
                             cmp, x.exp + k)

\* round(float) -> int for 0 <= x < 2^15: round-half-to-even on the float's
\* exact value.
py_round(x) ==
    IF x.m1 = 0 \/ x.exp < -1 THEN 0
    ELSE LET sh == TopBits - 1 - x.exp
             n == x.m1 \div Pow2(sh)
             f == x.m1 % Pow2(sh)
             half == Pow2(sh - 1)
             rest == x.m2 # 0 \/ x.m3 # 0
         IN IF f > half \/ (f = half /\ rest) THEN n + 1
            ELSE IF f = half THEN (IF n % 2 = 1 THEN n + 1 ELSE n)
            ELSE n

\* The exact rational num/den rounded to the nearest integer, exact halves
\* to the even neighbour (den > 0, num >= 0).
RoundHalfEvenExact(num, den) ==
    LET q == num \div den
        r == num % den
    IN IF 2 * r > den THEN q + 1
       ELSE IF 2 * r < den THEN q
       ELSE IF q % 2 = 1 THEN q + 1 ELSE q


(***************************************************************************)
(* State.  files/facts are the audited directory tree: files maps each     *)
(* path the predicates look at to its status, facts holds <<path, needle>> *)
(* for every piece of content a predicate searches for; edits counts the   *)
(* changes made to the tree.  input is the list of CheckResult built so    *)
(* far, outcome the last call with what it returned or raised, ran the     *)
(* predicates CheckEngine.run called, in order.                            *)
(***************************************************************************)
VARIABLES files, facts, edits, input, outcome, ran

(***************************************************************************)
(* State of the adapters.  disk is the directory tree a transaction works  *)
(* in, disk0 the tree as it was when the transaction began, tx the         *)
(* Transaction object and txpc where its with-block stands.  registry is   *)
(* the owner of the package name on PyPI, rsv the locals of reserve_pypi   *)
(* with its position, calls the helpers it has invoked, in order.          *)
(***************************************************************************)
VARIABLES disk, disk0, tx, txpc, registry, rsv, calls

adapterVars == <<disk, disk0, tx, txpc>>
reserveVars == <<registry, rsv, calls>>

(***************************************************************************)
(* State of the process the adapters run in: its environment variable      *)
(* PYPI_API_TOKEN, the file ~/.pypirc, its table of file descriptors and   *)
(* the objects bound to sys.stdout and sys.stderr.                         *)
(***************************************************************************)
VARIABLES environ, pypirc, fds, sys

hostVars == <<environ, pypirc, fds, sys>>

vars == <<files, facts, edits, input, outcome, ran, adapterVars, reserveVars,
          hostVars>>

(***************************************************************************)
(* Text: a Python str is a sequence of non-empty literal chunks, so that   *)
(* "" is <<>> and an f-string is the concatenation of its parts.           *)
(***************************************************************************)
T(s) == <<s>>

IntStr(n) == <<"0", "1", "2", "3", "4", "5", "6", "7", "8", "9">>[n + 1]

RECURSIVE Join(_, _)
Join(sep, items) ==
    IF items = <<>> THEN <<>>
    ELSE IF Len(items) = 1 THEN <<items[1]>>
    ELSE <<items[1], sep>> \o Join(sep, Tail(items))

\* sum() started from 1 instead of 0
RECURSIVE SumSeq_from_one(_)
SumSeq_from_one(seq) ==
    IF seq = <<>> THEN 1 ELSE seq[1] + SumSeq_from_one(Tail(seq))

RECURSIVE SumSeq(_)
SumSeq(seq) == IF seq = <<>> THEN 0 ELSE seq[1] + SumSeq(Tail(seq))

(***************************************************************************)
(* models/check.py                                                         *)
(***************************************************************************)
Grade == {"A", "B", "C", "D", "F"}

\* compute_grade with exclusive lower bounds
compute_grade_exclusive(score) ==
    IF score > 90 THEN "A"
    ELSE IF score > 75 THEN "B"
    ELSE IF score > 60 THEN "C"
    ELSE IF score > 40 THEN "D"
    ELSE "F"

compute_grade(score) ==
    IF score >= 90 THEN "A"
    ELSE IF score >= 75 THEN "B"
    ELSE IF score >= 60 THEN "C"
    ELSE IF score >= 40 THEN "D"
    ELSE "F"

CheckResult(name, category, passed, weight, message, details, fix) ==
    [name |-> name, category |-> category, passed |-> passed,
     weight |-> weight, message |-> message, details |-> details, fix |-> fix]

\* earned with the branches swapped: a failing check earns its weight
earned_inverted(c) == IF c.passed THEN 0 ELSE c.weight

earned(c) == IF c.passed THEN c.weight ELSE 0

\* CategoryScore.from_checks taking the points earned as the total
CategoryScore_from_checks_earned_total(category, checks) ==
    [category |-> category,
     earned |-> SumSeq([i \in 1..Len(checks) |-> earned(checks[i])]),
     total |-> SumSeq([i \in 1..Len(checks) |-> earned(checks[i])])]

CategoryScore_from_checks(category, checks) ==
    [category |-> category,
     earned |-> SumSeq([i \in 1..Len(checks) |-> earned(checks[i])]),
     total |-> SumSeq([i \in 1..Len(checks) |-> checks[i].weight])]

\* Keys of cat_map in insertion (first-seen) order.
RECURSIVE FirstSeen(_, _)
FirstSeen(checks, seen) ==
    IF checks = <<>> THEN <<>>
    ELSE IF checks[1].category \in seen THEN FirstSeen(Tail(checks), seen)
    ELSE <<checks[1].category>>
             \o FirstSeen(Tail(checks), seen \cup {checks[1].category})

\* the score as the points earned, as if every run's weights summed to 100
compute_score_points(total_earned, total_weight) ==
    IF total_weight > 0 THEN total_earned ELSE 0

compute_score(total_earned, total_weight) ==
    IF total_weight > 0
    THEN py_round(float_mul(float_truediv(total_earned, total_weight), 100))
    ELSE 0

\* from_checks grading the points earned instead of the percentage
ProjectResult_from_checks_points(project_path, checks) ==
    LET total_weight == SumSeq([i \in 1..Len(checks) |-> checks[i].weight])
        total_earned == SumSeq([i \in 1..Len(checks) |-> earned(checks[i])])
        score == compute_score(total_earned, total_weight)
        cats == FirstSeen(checks, {})
        categories ==
            [k \in 1..Len(cats) |->
                CategoryScore_from_checks(cats[k],
                    SelectSeq(checks, LAMBDA c : c.category = cats[k]))]
        failures == SelectSeq(checks, LAMBDA c : ~c.passed)
    IN [kind |-> "ProjectResult", via |-> "from_checks",
        project_path |-> project_path, checks |-> checks,
        score |-> score, grade |-> compute_grade(total_earned),
        categories |-> categories, failures |-> failures]

ProjectResult_from_checks(project_path, checks) ==
    LET total_weight == SumSeq([i \in 1..Len(checks) |-> checks[i].weight])
        total_earned == SumSeq([i \in 1..Len(checks) |-> earned(checks[i])])
        score == compute_score(total_earned, total_weight)
        cats == FirstSeen(checks, {})
        categories ==
            [k \in 1..Len(cats) |->
                CategoryScore_from_checks(cats[k],
                    SelectSeq(checks, LAMBDA c : c.category = cats[k]))]
        failures == SelectSeq(checks, LAMBDA c : ~c.passed)
    IN [kind |-> "ProjectResult", via |-> "from_checks",
        project_path |-> project_path, checks |-> checks,
        score |-> score, grade |-> compute_grade(score),
        categories |-> categories, failures |-> failures]


(***************************************************************************)
(* The audited tree.  ReadPaths are opened by some predicate, StatPaths    *)
(* are only tested for existence, DirPaths are directories.  Statuses:     *)
(* "absent"; "ok"; "denied" (exists, reading raises PermissionError);      *)
(* "garbled" (exists, content not decodable / not valid syntax).           *)
(***************************************************************************)
CI == ".github/workflows/ci.yml"
PUBLISH == ".github/workflows/publish.yml"
PRECOMMIT == ".pre-commit-config.yaml"
PYPROJECT == "pyproject.toml"

ReadPaths == {PYPROJECT, CI, PUBLISH, PRECOMMIT, "Makefile", "mkdocs.yml",
              "README.md", "../pyproject.toml", "../../pyproject.toml"}
StatPaths == {".github/dependabot.yml", ".git/hooks/pre-commit",
              "docs/gen_ref_pages.py", "CONTRIBUTING.md", "LICENSE", "uv.lock",
              ".python-version", "CHANGELOG.md", "../uv.lock", "../../uv.lock"}
DirPaths == {"src", "tests"}
Paths == ReadPaths \cup StatPaths \cup DirPaths

Statuses(p) ==
    IF p \in ReadPaths THEN {"absent", "ok", "denied", "garbled"}
    ELSE IF p \in DirPaths THEN {"absent", "ok", "denied"}
    ELSE {"absent", "ok"}

\* project.resolve().parents, nearest first, as far as the model looks.
Parents == <<"..", "../..">>

RULES == {"E", "F", "I", "UP", "B", "S", "BLE", "PLR", "N"}

Needles(p) ==
    CASE p = PYPROJECT ->
           {"project.urls.Homepage", "project.urls.Documentation",
            "project.urls.Repository", "project.urls.Issues",
            "project.dynamic:version", "build-system.requires:hatch-vcs",
            "tool.mypy.strict", "tool.mypy.pretty",
            "tool.mypy.disallow_incomplete_defs", "tool.mypy.check_untyped_defs",
            "tool.ruff.lint.per-file-ignores",
            "tool.ruff.lint.isort.known-first-party",
            "addopts:--strict-markers", "addopts:--strict-config",
            "addopts:--import-mode=importlib",
            "tool.pytest.ini_options.pythonpath",
            "tool.pytest.ini_options.filterwarnings",
            "tool.coverage.run.branch", "tool.coverage.run.relative_files",
            "tool.coverage.xml", "tool.coverage.report.exclude_lines",
            "classifier:Development Status ::",
            "classifier:Programming Language :: Python :: 3",
            "classifier:Typing :: Typed",
            "dev:pytest", "dev:ruff", "dev:mypy", "dev:pre-commit",
            "docs:mkdocs-material", "docs:mkdocstrings",
            "docs:mkdocs-gen-files", "docs:mkdocs-literate-nav",
            "tool.git-cliff", "select:ALL", "extend-select:ALL",
            "extend-select:B", "extend-select:N"}
           \cup {"select:" \o r : r \in RULES}
      [] p = CI -> {"lint", "test", "audit", "coveralls", "codecov"}
      [] p = PUBLISH -> {"id-token", "PYPI_API_TOKEN"}
      [] p = PRECOMMIT -> {"ruff", "mypy", "conventional-pre-commit",
                           "trailing-whitespace", "end-of-file-fixer",
                           "check-yaml"}
      [] p = "Makefile" -> {"install:", "check:", "lint:", "format:", "test:",
                            "audit:", "clean:", "docs-serve:"}
      [] p = "mkdocs.yml" -> {"tutorial", "how-to", "howto", "reference",
                              "explanation", "gen-files", "literate-nav",
                              "mkdocstrings"}
      [] p = "README.md" -> {"## Features", "## features", "## Installation",
                             "## install", "## Development", "## develop",
                             "## License", "## license"}
      [] p \in {"../pyproject.toml", "../../pyproject.toml"} ->
           {"[tool.uv.workspace]"}
      [] p = "src" -> {"pkg/__init__.py", "pkg/py.typed"}
      [] p = "tests" -> {"test_x.py"}
      [] OTHER -> {}

\* The spellings whose lower-case form contains the needle.
Spellings(needle) ==
    CASE needle = "## features" -> {"## features", "## Features"}
      [] needle = "## install" -> {"## install", "## Installation"}
      [] needle = "## develop" -> {"## develop", "## Development"}
      [] needle = "## license" -> {"## license", "## License"}
      [] OTHER -> {needle}

exists(p) == files[p] # "absent"
is_dir(p) == files[p] # "absent"

\* `needle in content` and `needle in content.lower()` for a file that was read
has(p, needle) == <<p, needle>> \in facts
has_lower(p, needle) == \E n \in Spellings(needle) : <<p, n>> \in facts

Return(v) == [kind |-> "return", value |-> v]
Raise(e) == [kind |-> "raise", exc |-> e]

\* Path.read_text(): the content, or the exception the read raises.
read_text(p) ==
    CASE files[p] = "denied" -> Raise("PermissionError")
      [] files[p] = "garbled" -> Raise("UnicodeDecodeError")
      [] OTHER -> Return(p)


(***************************************************************************)
(* checks/pyproject.py                                                     *)
(***************************************************************************)
\* None ("None") when pyproject.toml is missing, unreadable or not TOML;
\* otherwise the parsed document (queried through has(PYPROJECT, key)).
_load_toml ==
    IF ~exists(PYPROJECT) THEN "None"
    ELSE IF files[PYPROJECT] = "ok" THEN "data" ELSE "None"

toml(key) == has(PYPROJECT, key)

Missing(order, prefix) == SelectSeq(order, LAMBDA k : ~toml(prefix \o k))
Present(order, prefix) == SelectSeq(order, LAMBDA k : toml(prefix \o k))

check_pyproject_exists ==
    IF ~exists(PYPROJECT)
    THEN Return(CheckResult("pyproject.exists", "pyproject", FALSE, 4,
             T("pyproject.toml not found"), <<>>,
             T("Create a pyproject.toml at the project root.")))
    ELSE IF _load_toml = "None"
    THEN Return(CheckResult("pyproject.exists", "pyproject", FALSE, 4,
             T("pyproject.toml is unparsable"),
             <<T("File exists but contains invalid TOML")>>,
             T("Fix TOML syntax errors in pyproject.toml.")))
    ELSE Return(CheckResult("pyproject.exists", "pyproject", TRUE, 4,
             T("pyproject.toml found"), <<>>, <<>>))

check_pyproject_urls ==
    LET sorted_required == <<"Documentation", "Homepage", "Issues", "Repository">>
        missing == Missing(sorted_required, "project.urls.")
        present == Present(sorted_required, "project.urls.")
    IN IF _load_toml = "None"
       THEN Return(CheckResult("pyproject.urls", "pyproject", FALSE, 3,
                T("pyproject.toml not found or unparsable"), <<>>,
                T("Create pyproject.toml with [project.urls] section.")))
       ELSE IF missing # <<>>
       THEN Return(CheckResult("pyproject.urls", "pyproject", FALSE, 3,
                <<"Missing ", IntStr(Len(missing)), " URL(s) in [project.urls]">>,
                << <<"Missing: ">> \o Join(", ", missing),
                   <<"Present: ">> \o Join(", ", present) >>,
                <<"Add ">> \o Join(", ", missing)
                    \o <<" to [project.urls] in pyproject.toml.">>))
       ELSE Return(CheckResult("pyproject.urls", "pyproject", TRUE, 3,
                T("All 4 URLs present"), <<>>, <<>>))

check_pyproject_dynamic_version ==
    LET has_dynamic == toml("project.dynamic:version")
        has_hatch_vcs == toml("build-system.requires:hatch-vcs")
        problems ==
            (IF ~has_dynamic THEN <<T("Missing: dynamic = [\"version\"]")>> ELSE <<>>)
            \o (IF ~has_hatch_vcs
                THEN <<T("Missing: hatch-vcs in build-system.requires")>> ELSE <<>>)
    IN IF _load_toml = "None"
       THEN Return(CheckResult("pyproject.dynamic_version", "pyproject", FALSE, 3,
                T("pyproject.toml not found or unparsable"), <<>>,
                T("Create pyproject.toml with dynamic version using hatch-vcs.")))
       ELSE IF problems # <<>>
       THEN Return(CheckResult("pyproject.dynamic_version", "pyproject", FALSE, 3,
                T("Version is not dynamically managed"), problems,
                T("Add hatch-vcs to build-system.requires and set dynamic = [\"version\"].")))
       ELSE Return(CheckResult("pyproject.dynamic_version", "pyproject", TRUE, 3,
                T("Dynamic version with hatch-vcs"), <<>>, <<>>))

check_pyproject_mypy ==
    LET required == <<"strict", "pretty", "disallow_incomplete_defs",
                      "check_untyped_defs">>
        missing == Missing(required, "tool.mypy.")
        present == Present(required, "tool.mypy.")
    IN IF _load_toml = "None"
       THEN Return(CheckResult("pyproject.mypy", "pyproject", FALSE, 3,
                T("pyproject.toml not found or unparsable"), <<>>,
                T("Create pyproject.toml with [tool.mypy] section.")))
       ELSE IF missing # <<>>
       THEN Return(CheckResult("pyproject.mypy", "pyproject", FALSE, 3,
                <<"MyPy config incomplete - missing ", IntStr(Len(missing)),
                  " setting(s)">>,
                << <<"Missing: ">> \o Join(", ", missing),
                   <<"Present: ">> \o Join(", ", present) >>,
                <<"Add ">>
                    \o Join(", ", [i \in 1..Len(missing) |-> missing[i] \o " = true"])
                    \o <<" to [tool.mypy].">>))
       ELSE Return(CheckResult("pyproject.mypy", "pyproject", TRUE, 3,
                T("MyPy fully configured"), <<>>, <<>>))

check_pyproject_ruff ==
    LET problems ==
            (IF ~toml("tool.ruff.lint.per-file-ignores")
             THEN <<T("Missing: [tool.ruff.lint.per-file-ignores]")>> ELSE <<>>)
            \o (IF ~toml("tool.ruff.lint.isort.known-first-party")
                THEN <<T("Missing: known-first-party in [tool.ruff.lint.isort]")>>
                ELSE <<>>)
    IN IF _load_toml = "None"
       THEN Return(CheckResult("pyproject.ruff", "pyproject", FALSE, 3,
                T("pyproject.toml not found or unparsable"), <<>>,
                T("Create pyproject.toml with [tool.ruff.lint] section.")))
       ELSE IF problems # <<>>
       THEN Return(CheckResult("pyproject.ruff", "pyproject", FALSE, 3,
                T("Ruff config incomplete"), problems,
                T("Add per-file-ignores for tests and known-first-party to ruff config.")))
       ELSE Return(CheckResult("pyproject.ruff", "pyproject", TRUE, 3,
                T("Ruff fully configured"), <<>>, <<>>))

\* One "Missing: ..." line per (key, line) pair whose key is not set.
Problems(pairs) ==
    LET lacking == SelectSeq(pairs, LAMBDA pr : ~toml(pr[1]))
    IN [i \in 1..Len(lacking) |-> T(lacking[i][2])]

check_pyproject_pytest ==
    LET problems == Problems(<<
            <<"addopts:--strict-markers", "Missing: --strict-markers in addopts">>,
            <<"addopts:--strict-config", "Missing: --strict-config in addopts">>,
            <<"addopts:--import-mode=importlib",
              "Missing: --import-mode=importlib in addopts">>,
            <<"tool.pytest.ini_options.pythonpath", "Missing: pythonpath = [\"src\"]">>,
            <<"tool.pytest.ini_options.filterwarnings", "Missing: filterwarnings">> >>)
    IN IF _load_toml = "None"
       THEN Return(CheckResult("pyproject.pytest", "pyproject", FALSE, 4,
                T("pyproject.toml not found or unparsable"), <<>>,
                T("Create pyproject.toml with [tool.pytest.ini_options].")))
       ELSE IF problems # <<>>
       THEN Return(CheckResult("pyproject.pytest", "pyproject", FALSE, 4,
                <<"Pytest config incomplete - missing ", IntStr(Len(problems)),
                  " setting(s)">>,
                problems,
                T("Add missing settings to [tool.pytest.ini_options].")))
       ELSE Return(CheckResult("pyproject.pytest", "pyproject", TRUE, 4,
                T("Pytest fully configured"), <<>>, <<>>))

check_pyproject_coverage ==
    LET problems == Problems(<<
            <<"tool.coverage.run.branch",
              "Missing: branch = true in [tool.coverage.run]">>,
            <<"tool.coverage.run.relative_files",
              "Missing: relative_files = true in [tool.coverage.run]">>,
            <<"tool.coverage.xml", "Missing: [tool.coverage.xml] section">>,
            <<"tool.coverage.report.exclude_lines",
              "Missing: exclude_lines in [tool.coverage.report]">> >>)
    IN IF _load_toml = "None"
       THEN Return(CheckResult("pyproject.coverage", "pyproject", FALSE, 4,
                T("pyproject.toml not found or unparsable"), <<>>,
                T("Create pyproject.toml with [tool.coverage] sections.")))
       ELSE IF problems # <<>>
       THEN Return(CheckResult("pyproject.coverage", "pyproject", FALSE, 4,
                <<"Coverage config incomplete - missing ", IntStr(Len(problems)),
                  " setting(s)">>,
                problems,
                T("Add missing settings to [tool.coverage] sections.")))
       ELSE Return(CheckResult("pyproject.coverage", "pyproject", TRUE, 4,
                T("Coverage fully configured"), <<>>, <<>>))

check_pyproject_classifiers ==
    LET required_prefixes == <<
            <<"Development Status", "Development Status ::">>,
            <<"Python version", "Programming Language :: Python :: 3">>,
            <<"Typed", "Typing :: Typed">> >>
        lacking == SelectSeq(required_prefixes,
                             LAMBDA pr : ~toml("classifier:" \o pr[2]))
        missing == [i \in 1..Len(lacking) |-> lacking[i][1]]
    IN IF _load_toml = "None"
       THEN Return(CheckResult("pyproject.classifiers", "pyproject", FALSE, 1,
                T("pyproject.toml not found or unparsable"), <<>>,
                T("Add classifiers to [project] in pyproject.toml.")))
       ELSE IF missing # <<>>
       THEN Return(CheckResult("pyproject.classifiers", "pyproject", FALSE, 1,
                <<"Missing ", IntStr(Len(missing)), " required classifier(s)">>,
                << <<"Missing: ">> \o Join(", ", missing) >>,
                T("Add Development Status, Python version, and Typing :: Typed classifiers.")))
       ELSE Return(CheckResult("pyproject.classifiers", "pyproject", TRUE, 1,
                T("Required classifiers present"), <<>>, <<>>))

check_pyproject_ruff_rules ==
    LET in_rules(r) == toml("select:" \o r) \/ toml("extend-select:" \o r)
        sorted_required == <<"B", "E", "F", "I", "UP">>
        missing == IF in_rules("ALL") THEN <<>>
                   ELSE SelectSeq(sorted_required, LAMBDA r : ~in_rules(r))
    IN IF _load_toml = "None"
       THEN Return(CheckResult("pyproject.ruff_rules", "pyproject", FALSE, 2,
                T("pyproject.toml not found or unparsable"), <<>>,
                T("Add [tool.ruff.lint] select with E, F, I, UP, B.")))
       ELSE IF missing # <<>>
       THEN Return(CheckResult("pyproject.ruff_rules", "pyproject", FALSE, 2,
                <<"Missing ", IntStr(Len(missing)), " essential ruff rule(s)">>,
                << <<"Missing: ">> \o Join(", ", missing) >>,
                <<"Add ">> \o Join(", ", missing)
                    \o <<" to [tool.ruff.lint] select.">>))
       ELSE Return(CheckResult("pyproject.ruff_rules", "pyproject", TRUE, 2,
                T("Essential ruff rules activated"), <<>>, <<>>))


(***************************************************************************)
(* checks/ci.py                                                            *)
(***************************************************************************)
_read_ci == IF ~exists(CI) THEN Return("None") ELSE read_text(CI)

check_ci_workflow_exists ==
    LET content == _read_ci
    IN IF content.kind = "raise" THEN content
       ELSE IF content.value = "None"
       THEN Return(CheckResult("ci.workflow_exists", "ci", FALSE, 4,
                T("CI workflow not found"),
                <<T("Expected: .github/workflows/ci.yml")>>,
                T("Create .github/workflows/ci.yml with lint, test, and security jobs.")))
       ELSE Return(CheckResult("ci.workflow_exists", "ci", TRUE, 4,
                T("CI workflow found"), <<>>, <<>>))

check_ci_lint_job ==
    LET content == _read_ci
    IN IF content.kind = "raise" THEN content
       ELSE IF content.value = "None" \/ ~has_lower(CI, "lint")
       THEN Return(CheckResult("ci.lint_job", "ci", FALSE, 3,
                T("No lint job in CI"),
                <<T("CI should have a lint/type-check job")>>,
                T("Add a lint job to .github/workflows/ci.yml that runs 'make lint'.")))
       ELSE Return(CheckResult("ci.lint_job", "ci", TRUE, 3,
                T("Lint job present"), <<>>, <<>>))

check_ci_test_job ==
    LET content == _read_ci
    IN IF content.kind = "raise" THEN content
       ELSE IF content.value = "None" \/ ~has_lower(CI, "test")
       THEN Return(CheckResult("ci.test_job", "ci", FALSE, 3,
                T("No test job in CI"),
                <<T("CI should have a test job with python-version matrix")>>,
                T("Add a test job with strategy.matrix.python-version.")))
       ELSE Return(CheckResult("ci.test_job", "ci", TRUE, 3,
                T("Test job present"), <<>>, <<>>))

check_ci_security_job ==
    LET content == _read_ci
    IN IF content.kind = "raise" THEN content
       ELSE IF content.value = "None" \/ ~has_lower(CI, "audit")
       THEN Return(CheckResult("ci.security_job", "ci", FALSE, 2,
                T("No security audit job in CI"),
                <<T("CI should run pip-audit for dependency scanning")>>,
                T("Add a security job that runs 'uv run pip-audit'.")))
       ELSE Return(CheckResult("ci.security_job", "ci", TRUE, 2,
                T("Security audit job present"), <<>>, <<>>))

check_ci_coverage_upload ==
    LET content == _read_ci
    IN IF content.kind = "raise" THEN content
       ELSE IF content.value = "None"
               \/ (~has_lower(CI, "coveralls") /\ ~has_lower(CI, "codecov"))
       THEN Return(CheckResult("ci.coverage_upload", "ci", FALSE, 2,
                T("No coverage upload in CI"),
                <<T("CI should upload coverage to Coveralls or Codecov")>>,
                T("Add coverallsapp/github-action or codecov/codecov-action step.")))
       ELSE Return(CheckResult("ci.coverage_upload", "ci", TRUE, 2,
                T("Coverage upload configured"), <<>>, <<>>))

_read_publish == IF ~exists(PUBLISH) THEN Return("None") ELSE read_text(PUBLISH)

check_trusted_publishing ==
    LET content == _read_publish
    IN IF content.kind = "raise" THEN content
       ELSE IF content.value = "None" \/ ~has(PUBLISH, "id-token")
       THEN Return(CheckResult("ci.trusted_publishing", "ci", FALSE, 2,
                T("No Trusted Publishing (OIDC) in publish workflow"),
                <<T("publish.yml should use permissions: id-token: write")>>,
                T("Add 'permissions: id-token: write' to publish.yml for PyPI OIDC.")))
       ELSE IF has(PUBLISH, "PYPI_API_TOKEN")
       THEN Return(CheckResult("ci.trusted_publishing", "ci", FALSE, 2,
                T("publish.yml still uses PYPI_API_TOKEN alongside OIDC"),
                <<T("Remove secrets.PYPI_API_TOKEN to use true Trusted Publishing")>>,
                <<"Remove 'password: ${{ secrets.PYPI_API_TOKEN }}'",
                  " from publish.yml - OIDC handles auth automatically.">>))
       ELSE Return(CheckResult("ci.trusted_publishing", "ci", TRUE, 2,
                T("Trusted Publishing (OIDC) configured"), <<>>, <<>>))

check_dependabot ==
    IF ~exists(".github/dependabot.yml")
    THEN Return(CheckResult("ci.dependabot", "ci", FALSE, 2,
             T("Dependabot config not found"),
             <<T("Dependabot automates dependency security updates")>>,
             T("Create .github/dependabot.yml with pip and github-actions ecosystems.")))
    ELSE Return(CheckResult("ci.dependabot", "ci", TRUE, 2,
             T("Dependabot configured"), <<>>, <<>>))

(***************************************************************************)
(* checks/tooling.py                                                       *)
(***************************************************************************)
_read_precommit == IF ~exists(PRECOMMIT) THEN Return("None") ELSE read_text(PRECOMMIT)

check_precommit_exists ==
    LET content == _read_precommit
    IN IF content.kind = "raise" THEN content
       ELSE IF content.value = "None"
       THEN Return(CheckResult("tooling.precommit_exists", "tooling", FALSE, 3,
                T(".pre-commit-config.yaml not found"), <<>>,
                <<"Create .pre-commit-config.yaml with",
                  " ruff, mypy, and conventional-commit hooks.">>))
       ELSE Return(CheckResult("tooling.precommit_exists", "tooling", TRUE, 3,
                T(".pre-commit-config.yaml found"), <<>>, <<>>))

check_precommit_ruff ==
    LET content == _read_precommit
    IN IF content.kind = "raise" THEN content
       ELSE IF content.value = "None" \/ ~has(PRECOMMIT, "ruff")
       THEN Return(CheckResult("tooling.precommit_ruff", "tooling", FALSE, 2,
                T("No ruff hook in pre-commit"),
                <<T("ruff-pre-commit hook should be configured")>>,
                T("Add ruff-pre-commit repo with ruff and ruff-format hooks.")))
       ELSE Return(CheckResult("tooling.precommit_ruff", "tooling", TRUE, 2,
                T("Ruff hook present"), <<>>, <<>>))

check_precommit_mypy ==
    LET content == _read_precommit
    IN IF content.kind = "raise" THEN content
       ELSE IF content.value = "None" \/ ~has(PRECOMMIT, "mypy")
       THEN Return(CheckResult("tooling.precommit_mypy", "tooling", FALSE, 2,
                T("No mypy hook in pre-commit"),
                <<T("mirrors-mypy hook should be configured")>>,
                T("Add pre-commit/mirrors-mypy repo with mypy hook.")))
       ELSE Return(CheckResult("tooling.precommit_mypy", "tooling", TRUE, 2,
                T("MyPy hook present"), <<>>, <<>>))

check_precommit_conventional ==
    LET content == _read_precommit
    IN IF content.kind = "raise" THEN content
       ELSE IF content.value = "None" \/ ~has(PRECOMMIT, "conventional-pre-commit")
       THEN Return(CheckResult("tooling.precommit_conventional", "tooling", FALSE, 2,
                T("No conventional-commits hook in pre-commit"),
                <<T("conventional-pre-commit hook enforces commit message format")>>,
                T("Add compilerla/conventional-pre-commit repo.")))
       ELSE Return(CheckResult("tooling.precommit_conventional", "tooling", TRUE, 2,
                T("Conventional commits hook present"), <<>>, <<>>))

check_precommit_basic ==
    LET content == _read_precommit
        required == <<"trailing-whitespace", "end-of-file-fixer", "check-yaml">>
        missing == SelectSeq(required, LAMBDA h : ~has(PRECOMMIT, h))
    IN IF content.kind = "raise" THEN content
       ELSE IF content.value = "None"
       THEN Return(CheckResult("tooling.precommit_basic", "tooling", FALSE, 1,
                T("No pre-commit config"),
                << <<"Missing: ">> \o Join(", ", required) >>,
                T("Add pre-commit-hooks repo with basic hooks.")))
       ELSE IF missing # <<>>
       THEN Return(CheckResult("tooling.precommit_basic", "tooling", FALSE, 1,
                <<"Missing ", IntStr(Len(missing)), " basic hook(s)">>,
                << <<"Missing: ">> \o Join(", ", missing) >>,
                <<"Add ">> \o Join(", ", missing) \o <<" to pre-commit-hooks.">>))
       ELSE Return(CheckResult("tooling.precommit_basic", "tooling", TRUE, 1,
                T("Basic hooks present"), <<>>, <<>>))

\* check_precommit_installed whose failure carries no fix
check_precommit_installed_nofix ==
    IF ~exists(PRECOMMIT)
    THEN Return(CheckResult("tooling.precommit_installed", "tooling", TRUE, 2,
             T("No pre-commit config (nothing to install)"), <<>>, <<>>))
    ELSE IF exists(".git/hooks/pre-commit")
    THEN Return(CheckResult("tooling.precommit_installed", "tooling", TRUE, 2,
             T("Pre-commit hooks installed"), <<>>, <<>>))
    ELSE Return(CheckResult("tooling.precommit_installed", "tooling", FALSE, 2,
             T("Pre-commit hooks not installed"),
             <<T(".pre-commit-config.yaml exists but hooks are not activated")>>,
             <<>>))

check_precommit_installed ==
    IF ~exists(PRECOMMIT)
    THEN Return(CheckResult("tooling.precommit_installed", "tooling", TRUE, 2,
             T("No pre-commit config (nothing to install)"), <<>>, <<>>))
    ELSE IF exists(".git/hooks/pre-commit")
    THEN Return(CheckResult("tooling.precommit_installed", "tooling", TRUE, 2,
             T("Pre-commit hooks installed"), <<>>, <<>>))
    ELSE Return(CheckResult("tooling.precommit_installed", "tooling", FALSE, 2,
             T("Pre-commit hooks not installed"),
             <<T(".pre-commit-config.yaml exists but hooks are not activated")>>,
             T("Run 'pre-commit install' to activate hooks.")))

check_makefile ==
    LET content == read_text("Makefile")
        required_targets == <<"install", "check", "lint", "format", "test",
                              "audit", "clean", "docs-serve">>
        missing == SelectSeq(required_targets,
                             LAMBDA t : ~has("Makefile", t \o ":"))
    IN IF ~exists("Makefile")
       THEN Return(CheckResult("tooling.makefile", "tooling", FALSE, 4,
                T("Makefile not found"), <<>>,
                <<"Create a Makefile with install, check,",
                  " lint, format, test, audit, clean,", " docs-serve targets.">>))
       ELSE IF content.kind = "raise" THEN content
       ELSE IF missing # <<>>
       THEN Return(CheckResult("tooling.makefile", "tooling", FALSE, 4,
                <<"Makefile missing ", IntStr(Len(missing)), " target(s)">>,
                << <<"Missing targets: ">> \o Join(", ", missing) >>,
                <<"Add targets to Makefile: ">> \o Join(", ", missing) \o <<".">>))
       ELSE Return(CheckResult("tooling.makefile", "tooling", TRUE, 4,
                T("Makefile complete"), <<>>, <<>>))


(***************************************************************************)
(* checks/docs.py                                                          *)
(***************************************************************************)
check_mkdocs_exists ==
    IF ~exists("mkdocs.yml")
    THEN Return(CheckResult("docs.mkdocs_exists", "docs", FALSE, 3,
             T("mkdocs.yml not found"), <<>>,
             T("Create mkdocs.yml with Material theme and Diataxis navigation.")))
    ELSE Return(CheckResult("docs.mkdocs_exists", "docs", TRUE, 3,
             T("mkdocs.yml found"), <<>>, <<>>))

check_diataxis_nav ==
    LET content == read_text("mkdocs.yml")
        sections == <<
            <<"Tutorials", has_lower("mkdocs.yml", "tutorial")>>,
            <<"How-To", has_lower("mkdocs.yml", "how-to")
                          \/ has_lower("mkdocs.yml", "howto")>>,
            <<"Reference", has_lower("mkdocs.yml", "reference")>>,
            <<"Explanation", has_lower("mkdocs.yml", "explanation")>> >>
        absent == SelectSeq(sections, LAMBDA sp : ~sp[2])
        found == SelectSeq(sections, LAMBDA sp : sp[2])
        missing == [i \in 1..Len(absent) |-> absent[i][1]]
    IN IF ~exists("mkdocs.yml")
       THEN Return(CheckResult("docs.diataxis_nav", "docs", FALSE, 3,
                T("mkdocs.yml not found"), <<>>,
                T("Create mkdocs.yml with Diataxis nav structure.")))
       ELSE IF content.kind = "raise" THEN content
       ELSE IF missing # <<>>
       THEN Return(CheckResult("docs.diataxis_nav", "docs", FALSE, 3,
                <<"Diataxis nav incomplete - missing ", IntStr(Len(missing)),
                  " section(s)">>,
                << <<"Missing: ">> \o Join(", ", missing),
                   <<"Present: ">>
                       \o Join(", ", [i \in 1..Len(found) |-> found[i][1]]) >>,
                <<"Add ">> \o Join(", ", missing)
                    \o <<" section(s) to mkdocs.yml nav.">>))
       ELSE Return(CheckResult("docs.diataxis_nav", "docs", TRUE, 3,
                T("Full Diataxis nav structure"), <<>>, <<>>))

check_docs_plugins ==
    LET content == read_text("mkdocs.yml")
        required == <<"gen-files", "literate-nav", "mkdocstrings">>
        missing == SelectSeq(required, LAMBDA p : ~has("mkdocs.yml", p))
    IN IF ~exists("mkdocs.yml")
       THEN Return(CheckResult("docs.plugins", "docs", FALSE, 3,
                T("mkdocs.yml not found"), <<>>,
                T("Create mkdocs.yml with gen-files, literate-nav, mkdocstrings plugins.")))
       ELSE IF content.kind = "raise" THEN content
       ELSE IF missing # <<>>
       THEN Return(CheckResult("docs.plugins", "docs", FALSE, 3,
                <<"Missing ", IntStr(Len(missing)), " plugin(s)">>,
                << <<"Missing: ">> \o Join(", ", missing) >>,
                <<"Add ">> \o Join(", ", missing) \o <<" to mkdocs.yml plugins.">>))
       ELSE Return(CheckResult("docs.plugins", "docs", TRUE, 3,
                T("All plugins configured"), <<>>, <<>>))

check_docs_gen_ref_pages ==
    IF ~exists("docs/gen_ref_pages.py")
    THEN Return(CheckResult("docs.gen_ref_pages", "docs", FALSE, 2,
             T("docs/gen_ref_pages.py not found"),
             <<T("Auto-gen script needed for mkdocstrings API reference")>>,
             T("Create docs/gen_ref_pages.py for automatic API reference generation.")))
    ELSE Return(CheckResult("docs.gen_ref_pages", "docs", TRUE, 2,
             T("gen_ref_pages.py found"), <<>>, <<>>))

check_readme ==
    LET content == read_text("README.md")
        required == <<
            <<"Features", has("README.md", "## Features")
                            \/ has_lower("README.md", "## features")>>,
            <<"Installation", has("README.md", "## Installation")
                                \/ has_lower("README.md", "## install")>>,
            <<"Development", has("README.md", "## Development")
                               \/ has_lower("README.md", "## develop")>>,
            <<"License", has("README.md", "## License")
                           \/ has_lower("README.md", "## license")>> >>
        absent == SelectSeq(required, LAMBDA sp : ~sp[2])
        missing == [i \in 1..Len(absent) |-> absent[i][1]]
    IN IF ~exists("README.md")
       THEN Return(CheckResult("docs.readme", "docs", FALSE, 3,
                T("README.md not found"), <<>>,
                T("Create README.md following axm-bib standard.")))
       ELSE IF content.kind = "raise" THEN content
       ELSE IF missing # <<>>
       THEN Return(CheckResult("docs.readme", "docs", FALSE, 3,
                <<"README missing ", IntStr(Len(missing)), " section(s)">>,
                << <<"Missing: ">> \o Join(", ", missing) >>,
                <<"Add ">> \o Join(", ", missing)
                    \o <<" section(s) to README.md.">>))
       ELSE Return(CheckResult("docs.readme", "docs", TRUE, 3,
                T("README follows standard"), <<>>, <<>>))

(***************************************************************************)
(* checks/structure.py                                                     *)
(***************************************************************************)
\* src.iterdir(): raises when the directory cannot be listed.
iterdir(d) == IF files[d] = "denied" THEN Raise("PermissionError") ELSE Return(d)

\* [d for d in src.iterdir() if d.is_dir() and (d / "__init__.py").exists()]
packages == IF has("src", "pkg/__init__.py") THEN <<"pkg">> ELSE <<>>

check_src_layout ==
    LET listing == iterdir("src")
    IN IF ~is_dir("src")
       THEN Return(CheckResult("structure.src_layout", "structure", FALSE, 4,
                T("src/ directory not found"),
                <<T("Expected: src/<package_name>/__init__.py")>>,
                T("Migrate to src/ layout: move package into src/<package_name>/.")))
       ELSE IF listing.kind = "raise" THEN listing
       ELSE IF packages = <<>>
       THEN Return(CheckResult("structure.src_layout", "structure", FALSE, 4,
                T("No Python package found in src/"),
                <<T("src/ exists but contains no package with __init__.py")>>,
                T("Create src/<package_name>/__init__.py.")))
       ELSE Return(CheckResult("structure.src_layout", "structure", TRUE, 4,
                <<"src/ layout with ", IntStr(Len(packages)), " package(s)">>,
                <<>>, <<>>))

check_py_typed ==
    LET listing == iterdir("src")
    IN IF ~is_dir("src")
       THEN Return(CheckResult("structure.py_typed", "structure", FALSE, 2,
                T("src/ directory not found"), <<>>,
                T("Create src/<package_name>/py.typed marker file.")))
       ELSE IF listing.kind = "raise" THEN listing
       ELSE IF \E i \in 1..Len(packages) :
                    has("src", packages[i] \o "/py.typed")
       THEN Return(CheckResult("structure.py_typed", "structure", TRUE, 2,
                T("py.typed marker found"), <<>>, <<>>))
       ELSE Return(CheckResult("structure.py_typed", "structure", FALSE, 2,
                T("py.typed marker not found"),
                <<T("PEP 561: py.typed marks package as providing type information")>>,
                T("Create an empty src/<package_name>/py.typed file.")))

\* list(tests.rglob("test_*.py")); a directory that cannot be listed yields
\* nothing.
test_files ==
    IF files["tests"] = "ok" /\ has("tests", "test_x.py")
    THEN <<"test_x.py">> ELSE <<>>

check_tests_dir ==
    IF ~is_dir("tests")
    THEN Return(CheckResult("structure.tests_dir", "structure", FALSE, 3,
             T("tests/ directory not found"), <<>>,
             T("Create tests/ directory with test files.")))
    ELSE IF test_files = <<>>
    THEN Return(CheckResult("structure.tests_dir", "structure", FALSE, 3,
             T("No test files found in tests/"),
             <<T("Expected: tests/test_*.py files")>>,
             T("Add test files matching test_*.py pattern.")))
    ELSE Return(CheckResult("structure.tests_dir", "structure", TRUE, 3,
             <<IntStr(Len(test_files)), " test file(s) found">>, <<>>, <<>>))

check_contributing ==
    IF ~exists("CONTRIBUTING.md")
    THEN Return(CheckResult("structure.contributing", "structure", FALSE, 2,
             T("CONTRIBUTING.md not found"), <<>>,
             T("Create CONTRIBUTING.md with dev setup and commit conventions.")))
    ELSE Return(CheckResult("structure.contributing", "structure", TRUE, 2,
             T("CONTRIBUTING.md found"), <<>>, <<>>))

\* check_license_file with another weight on its missing-file branch
check_license_file_light_miss ==
    IF ~exists("LICENSE")
    THEN Return(CheckResult("structure.license", "structure", FALSE, 2,
             T("LICENSE file not found"), <<>>,
             T("Create a LICENSE file (MIT, Apache-2.0, or EUPL-1.2).")))
    ELSE Return(CheckResult("structure.license", "structure", TRUE, 3,
             T("LICENSE file found"), <<>>, <<>>))

check_license_file ==
    IF ~exists("LICENSE")
    THEN Return(CheckResult("structure.license", "structure", FALSE, 3,
             T("LICENSE file not found"), <<>>,
             T("Create a LICENSE file (MIT, Apache-2.0, or EUPL-1.2).")))
    ELSE Return(CheckResult("structure.license", "structure", TRUE, 3,
             T("LICENSE file found"), <<>>, <<>>))

\* The loop over project.resolve().parents, from the i-th parent on.
RECURSIVE _find_uv_lock_from(_)
_find_uv_lock_from(i) ==
    IF i > Len(Parents) THEN Return("None")
    ELSE LET parent == Parents[i]
             candidate == parent \o "/pyproject.toml"
             lock == parent \o "/uv.lock"
         IN IF ~exists(candidate) THEN _find_uv_lock_from(i + 1)
            ELSE IF files[candidate] = "denied" THEN _find_uv_lock_from(i + 1)
            ELSE IF files[candidate] = "garbled" THEN Raise("UnicodeDecodeError")
            ELSE IF has(candidate, "[tool.uv.workspace]")
            THEN (IF exists(lock) THEN Return(lock) ELSE Return("None"))
            ELSE _find_uv_lock_from(i + 1)

_find_uv_lock ==
    IF exists("uv.lock") THEN Return("uv.lock") ELSE _find_uv_lock_from(1)

check_uv_lock ==
    LET lock == _find_uv_lock
    IN IF lock.kind = "raise" THEN lock
       ELSE IF lock.value = "None"
       THEN Return(CheckResult("structure.uv_lock", "structure", FALSE, 2,
                T("uv.lock not found"),
                <<T("Commit uv.lock for reproducible dependency resolution")>>,
                T("Run 'uv lock' and commit the generated uv.lock file.")))
       ELSE Return(CheckResult("structure.uv_lock", "structure", TRUE, 2,
                IF lock.value # "uv.lock" THEN T("uv.lock found (workspace root)")
                ELSE T("uv.lock found"),
                <<>>, <<>>))

check_python_version ==
    IF ~exists(".python-version")
    THEN Return(CheckResult("structure.python_version", "structure", FALSE, 1,
             T(".python-version not found"),
             <<T("Pin Python version for consistent environments")>>,
             T("Run 'uv python pin 3.12' to create .python-version.")))
    ELSE Return(CheckResult("structure.python_version", "structure", TRUE, 1,
             T(".python-version found"), <<>>, <<>>))

(***************************************************************************)
(* checks/deps.py                                                          *)
(***************************************************************************)
check_dev_deps ==
    LET required == <<"pytest", "ruff", "mypy", "pre-commit">>
        missing == Missing(required, "dev:")
    IN IF _load_toml = "None"
       THEN Return(CheckResult("deps.dev_group", "deps", FALSE, 3,
                T("pyproject.toml not found or unparsable"), <<>>,
                T("Create pyproject.toml with [dependency-groups] dev group.")))
       ELSE IF missing # <<>>
       THEN Return(CheckResult("deps.dev_group", "deps", FALSE, 3,
                <<"Dev group missing ", IntStr(Len(missing)), " dep(s)">>,
                << <<"Missing: ">> \o Join(", ", missing) >>,
                <<"Add ">> \o Join(", ", missing)
                    \o <<" to [dependency-groups] dev.">>))
       ELSE Return(CheckResult("deps.dev_group", "deps", TRUE, 3,
                T("Dev deps complete"), <<>>, <<>>))

check_docs_deps ==
    LET required == <<"mkdocs-material", "mkdocstrings", "mkdocs-gen-files",
                      "mkdocs-literate-nav">>
        missing == Missing(required, "docs:")
    IN IF _load_toml = "None"
       THEN Return(CheckResult("deps.docs_group", "deps", FALSE, 2,
                T("pyproject.toml not found or unparsable"), <<>>,
                T("Create pyproject.toml with [dependency-groups] docs group.")))
       ELSE IF missing # <<>>
       THEN Return(CheckResult("deps.docs_group", "deps", FALSE, 2,
                <<"Docs group missing ", IntStr(Len(missing)), " dep(s)">>,
                << <<"Missing: ">> \o Join(", ", missing) >>,
                <<"Add ">> \o Join(", ", missing)
                    \o <<" to [dependency-groups] docs.">>))
       ELSE Return(CheckResult("deps.docs_group", "deps", TRUE, 2,
                T("Docs deps complete"), <<>>, <<>>))

(***************************************************************************)
(* checks/changelog.py                                                     *)
(***************************************************************************)
check_gitcliff_config ==
    IF ~exists(PYPROJECT)
    THEN Return(CheckResult("changelog.gitcliff", "changelog", FALSE, 3,
             T("pyproject.toml not found"), <<>>,
             T("Create pyproject.toml with [tool.git-cliff] section.")))
    ELSE IF files[PYPROJECT] # "ok"
    THEN Return(CheckResult("changelog.gitcliff", "changelog", FALSE, 3,
             T("pyproject.toml unparsable"), <<>>,
             T("Fix TOML syntax and add [tool.git-cliff] section.")))
    ELSE IF ~toml("tool.git-cliff")
    THEN Return(CheckResult("changelog.gitcliff", "changelog", FALSE, 3,
             T("No [tool.git-cliff] config found"),
             <<T("git-cliff auto-generates CHANGELOG from conventional commits")>>,
             <<"Add [tool.git-cliff.changelog] and",
               " [tool.git-cliff.git] to pyproject.toml.">>))
    ELSE Return(CheckResult("changelog.gitcliff", "changelog", TRUE, 3,
             T("git-cliff configured"), <<>>, <<>>))

check_no_manual_changelog ==
    IF exists("CHANGELOG.md")
    THEN Return(CheckResult("changelog.no_manual", "changelog", FALSE, 2,
             T("Manual CHANGELOG.md found"),
             <<T("git-cliff should auto-generate the changelog")>>,
             <<"Delete CHANGELOG.md - git-cliff generates",
               " it from conventional commits.">>))
    ELSE Return(CheckResult("changelog.no_manual", "changelog", TRUE, 2,
             T("No manual CHANGELOG.md"), <<>>, <<>>))


(***************************************************************************)
(* core/checker.py                                                         *)
(***************************************************************************)
\* Registry: category -> list of check functions, in dict order.
ALL_CHECKS == <<
    [category |-> "pyproject",
     fns |-> <<"check_pyproject_exists", "check_pyproject_urls",
               "check_pyproject_dynamic_version", "check_pyproject_mypy",
               "check_pyproject_ruff", "check_pyproject_pytest",
               "check_pyproject_coverage", "check_pyproject_classifiers",
               "check_pyproject_ruff_rules">>],
    [category |-> "ci",
     fns |-> <<"check_ci_workflow_exists", "check_ci_lint_job",
               "check_ci_test_job", "check_ci_security_job",
               "check_ci_coverage_upload", "check_trusted_publishing",
               "check_dependabot">>],
    [category |-> "tooling",
     fns |-> <<"check_precommit_exists", "check_precommit_ruff",
               "check_precommit_mypy", "check_precommit_conventional",
               "check_precommit_basic", "check_precommit_installed",
               "check_makefile">>],
    [category |-> "docs",
     fns |-> <<"check_mkdocs_exists", "check_diataxis_nav", "check_docs_plugins",
               "check_docs_gen_ref_pages", "check_readme">>],
    [category |-> "structure",
     fns |-> <<"check_src_layout", "check_py_typed", "check_tests_dir",
               "check_contributing", "check_license_file", "check_uv_lock",
               "check_python_version">>],
    [category |-> "deps", fns |-> <<"check_dev_deps", "check_docs_deps">>],
    [category |-> "changelog",
     fns |-> <<"check_gitcliff_config", "check_no_manual_changelog">>] >>

VALID_CATEGORIES == {ALL_CHECKS[i].category : i \in 1..Len(ALL_CHECKS)}

\* fn(self.project_path)
Call(fn) ==
    CASE fn = "check_pyproject_exists" -> check_pyproject_exists
      [] fn = "check_pyproject_urls" -> check_pyproject_urls
      [] fn = "check_pyproject_dynamic_version" -> check_pyproject_dynamic_version
      [] fn = "check_pyproject_mypy" -> check_pyproject_mypy
      [] fn = "check_pyproject_ruff" -> check_pyproject_ruff
      [] fn = "check_pyproject_pytest" -> check_pyproject_pytest
      [] fn = "check_pyproject_coverage" -> check_pyproject_coverage
      [] fn = "check_pyproject_classifiers" -> check_pyproject_classifiers
      [] fn = "check_pyproject_ruff_rules" -> check_pyproject_ruff_rules
      [] fn = "check_ci_workflow_exists" -> check_ci_workflow_exists
      [] fn = "check_ci_lint_job" -> check_ci_lint_job
      [] fn = "check_ci_test_job" -> check_ci_test_job
      [] fn = "check_ci_security_job" -> check_ci_security_job
      [] fn = "check_ci_coverage_upload" -> check_ci_coverage_upload
      [] fn = "check_trusted_publishing" -> check_trusted_publishing
      [] fn = "check_dependabot" -> check_dependabot
      [] fn = "check_precommit_exists" -> check_precommit_exists
      [] fn = "check_precommit_ruff" -> check_precommit_ruff
      [] fn = "check_precommit_mypy" -> check_precommit_mypy
      [] fn = "check_precommit_conventional" -> check_precommit_conventional
      [] fn = "check_precommit_basic" -> check_precommit_basic
      [] fn = "check_precommit_installed" -> check_precommit_installed
      [] fn = "check_makefile" -> check_makefile
      [] fn = "check_mkdocs_exists" -> check_mkdocs_exists
      [] fn = "check_diataxis_nav" -> check_diataxis_nav
      [] fn = "check_docs_plugins" -> check_docs_plugins
      [] fn = "check_docs_gen_ref_pages" -> check_docs_gen_ref_pages
      [] fn = "check_readme" -> check_readme
      [] fn = "check_src_layout" -> check_src_layout
      [] fn = "check_py_typed" -> check_py_typed
      [] fn = "check_tests_dir" -> check_tests_dir
      [] fn = "check_contributing" -> check_contributing
      [] fn = "check_license_file" -> check_license_file
      [] fn = "check_uv_lock" -> check_uv_lock
      [] fn = "check_python_version" -> check_python_version
      [] fn = "check_dev_deps" -> check_dev_deps
      [] fn = "check_docs_deps" -> check_docs_deps
      [] fn = "check_gitcliff_config" -> check_gitcliff_config
      [] fn = "check_no_manual_changelog" -> check_no_manual_changelog

\* Code-point order of the category names, for sorted().
str_rank(x) ==
    CASE x = "changelog" -> 1 [] x = "ci" -> 2 [] x = "deps" -> 3
      [] x = "docs" -> 4 [] x = "pyproject" -> 5 [] x = "structure" -> 6
      [] x = "tooling" -> 7

RECURSIVE sorted(_)
sorted(S) ==
    IF S = {} THEN <<>>
    ELSE LET m == CHOOSE x \in S : \A y \in S : str_rank(x) <= str_rank(y)
         IN <<m>> \o sorted(S \ {m})

\* the groups visited last to first
RECURSIVE Flatten_reversed(_)
Flatten_reversed(groups) ==
    IF groups = <<>> THEN <<>>
    ELSE Flatten_reversed(Tail(groups)) \o groups[1].fns

RECURSIVE Flatten(_)
Flatten(groups) ==
    IF groups = <<>> THEN <<>> ELSE groups[1].fns \o Flatten(Tail(groups))

\* the category filter dropped: every run uses the full registry
checks_to_run_all(category) == ALL_CHECKS

\* if self.category: ... else: checks_to_run = ALL_CHECKS
checks_to_run(category) ==
    IF category \notin {"None", ""}
    THEN SelectSeq(ALL_CHECKS, LAMBDA g : g.category = category)
    ELSE ALL_CHECKS

project_path == "/proj"

\* run() without the VALID_CATEGORIES test: an unknown category selects
\* nothing and folds an empty list
Engine_run_unchecked(category) ==
    LET fns == Flatten(checks_to_run(category))
        rets == [i \in 1..Len(fns) |-> Call(fns[i])]
        raising == {i \in 1..Len(fns) : rets[i].kind = "raise"}
    IN IF raising # {}
       THEN LET k == CHOOSE i \in raising : \A j \in raising : i <= j
            IN [ret |-> rets[k], ran |-> SubSeq(fns, 1, k)]
       ELSE [ret |-> Return(ProjectResult_from_checks(project_path,
                         [i \in 1..Len(fns) |-> rets[i].value])),
             ran |-> fns]

\* CheckEngine(project_path, category=category).run(): what it returns or
\* raises, and the predicates it called on the way.
Engine_run(category) ==
    IF category \notin {"None", ""} /\ category \notin VALID_CATEGORIES
    THEN [ret |-> [kind |-> "raise", exc |-> "ValueError",
                   msg |-> <<"Unknown category '", category, "'. Valid: ">>
                               \o Join(", ", sorted(VALID_CATEGORIES))],
          ran |-> <<>>]
    ELSE LET fns == Flatten(checks_to_run(category))
             rets == [i \in 1..Len(fns) |-> Call(fns[i])]
             raising == {i \in 1..Len(fns) : rets[i].kind = "raise"}
         IN IF raising # {}
            THEN LET k == CHOOSE i \in raising : \A j \in raising : i <= j
                 IN [ret |-> rets[k], ran |-> SubSeq(fns, 1, k)]
            ELSE [ret |-> Return(ProjectResult_from_checks(project_path,
                              [i \in 1..Len(fns) |-> rets[i].value])),
                  ran |-> fns]

(***************************************************************************)
(* pydantic BaseModel construction.  A class without model_config keeps    *)
(* the default extra = "ignore"; models/results.py and models/project.py   *)
(* set extra = "forbid".                                                   *)
(***************************************************************************)
model_config(cls) ==
    IF cls \in {"ScaffoldResult", "ReserveResult"} THEN "forbid" ELSE "ignore"

\* cls(**fields, **extras): the instance, or ValidationError.
BaseModel_init(cls, fields, extras) ==
    IF extras # {} /\ model_config(cls) = "forbid"
    THEN [kind |-> "raise", exc |-> "ValidationError"]
    ELSE Return(fields)

(***************************************************************************)
(* core/checker.py formatters.  A dict is a record; a multi-line str is    *)
(* the sequence of its lines.                                              *)
(***************************************************************************)
\* str(n) for an int n >= 0
RECURSIVE str(_)
str(n) == IF n < 10 THEN IntStr(n) ELSE str(n \div 10) \o IntStr(n % 10)

\* sum(1 for c in checks if c.passed)
passed_count(checks) == Len(SelectSeq(checks, LAMBDA c : c.passed))

grade_emoji(g) ==
    CASE g = "A" -> "trophy" [] g = "B" -> "check" [] g = "C" -> "warning"
      [] g = "D" -> "wrench" [] g = "F" -> "cross"

\* format_report(result) with verbose=False; emoji are written by name and
\* the column padding of {name:<30s} {earned:>5s} as a chunk of its own.
format_report(result) ==
    LET name == "proj"
        head == << <<"clipboard AXM Check - ", name>>,
                   <<"   Path: ", result.project_path>>, <<>> >>
        cat_lines(cs) ==
            LET cat_checks == SelectSeq(result.checks,
                                  LAMBDA c : c.category = cs.category)
                failed_checks == SelectSeq(cat_checks, LAMBDA c : ~c.passed)
            IN << <<"  ", cs.category, " (", str(cs.earned), "/",
                    str(cs.total), ")">> >>
               \o (IF passed_count(cat_checks) > 0
                   THEN << <<"    check ", str(passed_count(cat_checks)),
                             " checks passed">> >>
                   ELSE <<>>)
               \o [i \in 1..Len(failed_checks) |->
                      <<"    cross ", failed_checks[i].name, "<30s ",
                        str(earned(failed_checks[i])), "/",
                        str(failed_checks[i].weight), ">5s  ">>
                          \o failed_checks[i].message]
               \o << <<>> >>
        RECURSIVE cats(_)
        cats(k) == IF k > Len(result.categories) THEN <<>>
                   ELSE cat_lines(result.categories[k]) \o cats(k + 1)
        score == << <<"  Score: ", str(result.score), "/100 - Grade ",
                      result.grade, " ", grade_emoji(result.grade)>>, <<>> >>
        fail_lines(f) ==
            << <<"  cross ", f.name, " (", str(f.weight), " pts)">>,
               <<"     Problem: ">> \o f.message >>
            \o [i \in 1..Len(f.details) |-> <<"     ">> \o f.details[i]]
            \o << <<"     Fix:     ">> \o f.fix, <<>> >>
        RECURSIVE fails(_)
        fails(k) == IF k > Len(result.failures) THEN <<>>
                    ELSE fail_lines(result.failures[k]) \o fails(k + 1)
    IN head \o cats(1) \o score
       \o (IF result.failures # <<>>
           THEN << <<"  memo Failures (", str(Len(result.failures)), "):">>,
                   <<>> >> \o fails(1)
           ELSE <<>>)

format_json(result) ==
    [project |-> result.project_path,
     score |-> result.score,
     grade |-> result.grade,
     categories |->
        [k \in 1..Len(result.categories) |->
            [category |-> result.categories[k].category,
             earned |-> result.categories[k].earned,
             total |-> result.categories[k].total]],
     checks |->
        [i \in 1..Len(result.checks) |->
            [name |-> result.checks[i].name,
             category |-> result.checks[i].category,
             passed |-> result.checks[i].passed,
             earned |-> earned(result.checks[i]),
             weight |-> result.checks[i].weight,
             message |-> result.checks[i].message]],
     failures |->
        [i \in 1..Len(result.failures) |->
            [name |-> result.failures[i].name,
             weight |-> result.failures[i].weight,
             message |-> result.failures[i].message,
             details |-> result.failures[i].details,
             fix |-> result.failures[i].fix]]]

\* format_agent keeping the full list of passed checks next to the count
format_agent_with_passed(result) ==
    [score |-> result.score,
     grade |-> result.grade,
     passed_count |-> passed_count(result.checks),
     passed |-> SelectSeq(result.checks, LAMBDA c : c.passed),
     failed |->
        [i \in 1..Len(result.failures) |->
            [name |-> result.failures[i].name,
             message |-> result.failures[i].message,
             details |-> result.failures[i].details,
             fix |-> result.failures[i].fix]]]

format_agent(result) ==
    [score |-> result.score,
     grade |-> result.grade,
     passed_count |-> passed_count(result.checks),
     failed |->
        [i \in 1..Len(result.failures) |->
            [name |-> result.failures[i].name,
             message |-> result.failures[i].message,
             details |-> result.failures[i].details,
             fix |-> result.failures[i].fix]]]

(***************************************************************************)
(* cli.py: the check command.  path "." is the audited tree itself; the    *)
(* process exit status is 0 when the command returns, 1 on SystemExit(1)   *)
(* and 1 when an exception reaches the interpreter.                        *)
(***************************************************************************)
\* Path(path).resolve().is_dir()
Path_is_dir(path) == path = "." \/ (path \in DirPaths /\ is_dir(path))

\* exceptions that `except ValueError` catches
ValueErrors == {"ValueError", "UnicodeDecodeError"}

\* no engine outcome: run() was not reached
NoResult == [kind |-> "none"]

\* the process ended: its status, what print() wrote to stdout (one entry
\* per call) and the text written to stderr
Exit(code, stdout, stderr) ==
    [kind |-> "exit", code |-> code, stdout |-> stdout, stderr |-> stderr]

\* an exit status that reports success for any score that earns grade A
exit_status_grade_a(result) == IF result.score < 90 THEN 1 ELSE 0

\* if result.score < 100: raise SystemExit(1); otherwise the command returns
\* and the process ends with status 0
exit_status(result) == IF result.score < 100 THEN 1 ELSE 0

\* check after engine.run(): r is what the run ended as and the predicates
\* it called
cli_check_ran(r, json_output, agent) ==
    IF r.ret.kind = "raise" /\ r.ret.exc \in ValueErrors
    THEN [ret |-> Exit(1, <<>>, IF r.ret.exc = "ValueError" THEN r.ret.msg
                                ELSE <<r.ret.exc>>),
          result |-> r.ret, ran |-> r.ran]
    ELSE IF r.ret.kind = "raise"
    THEN [ret |-> Exit(1, <<>>, <<"Traceback: ", r.ret.exc>>),
          result |-> r.ret, ran |-> r.ran]
    ELSE LET result == r.ret.value
             out == IF agent THEN format_agent(result)
                    ELSE IF json_output THEN format_json(result)
                    ELSE format_report(result)
         IN [ret |-> Exit(exit_status(result), <<out>>, <<>>),
             result |-> r.ret, ran |-> r.ran]

\* check(path, json_output=..., agent=..., category=...): the exit status
\* with what was printed, the engine's outcome and the predicates called.
\* The engine runs once: r ranges over its one outcome.
cli_check(path, json_output, agent, category) ==
    IF ~Path_is_dir(path)
    THEN [ret |-> Exit(1, <<>>, <<"Not a directory: ", path>>),
          result |-> NoResult, ran |-> <<>>]
    ELSE CHOOSE x \in {cli_check_ran(r, json_output, agent) :
                          r \in {Engine_run(category)}} : TRUE

(***************************************************************************)
(* adapters/filesystem.py.  The tree a transaction works in: a directory   *)
(* d with two entries d/f and d/e, and an entry h, under a writable root.  *)
(* An entry is "absent", a directory ("dir", or "rodir" when its mode      *)
(* denies writing, so that nothing can be added to or removed from it) or  *)
(* a file, given by its content.                                           *)
(***************************************************************************)
TxPaths == {"d", "d/f", "d/e", "h"}
Parent(p) == IF p \in {"d/f", "d/e"} THEN "d" ELSE "/"
Dirs == {"dir", "rodir"}

entry(dk, p) == IF p = "/" THEN "dir" ELSE dk[p]

Ok(dk) == [disk |-> dk, exc |-> "none"]
Fail(dk, e) == [disk |-> dk, exc |-> e]

\* os.mkdir(p)
os_mkdir(dk, p) ==
    LET par == entry(dk, Parent(p))
    IN IF par = "absent" THEN Fail(dk, "FileNotFoundError")
       ELSE IF par \notin Dirs THEN Fail(dk, "NotADirectoryError")
       ELSE IF dk[p] # "absent" THEN Fail(dk, "FileExistsError")
       ELSE IF par = "rodir" THEN Fail(dk, "PermissionError")
       ELSE Ok([dk EXCEPT ![p] = "dir"])

\* p.mkdir(parents=True, exist_ok=True)
RECURSIVE Path_mkdir(_, _)
Path_mkdir(dk, p) ==
    IF p = "/" THEN Ok(dk)
    ELSE LET r == os_mkdir(dk, p)
         IN IF r.exc = "none" THEN r
            ELSE IF r.exc = "FileNotFoundError"
            THEN LET up == Path_mkdir(dk, Parent(p))
                 IN IF up.exc # "none" THEN up
                    ELSE LET again == os_mkdir(up.disk, p)
                         IN IF again.exc # "none" /\ up.disk[p] \in Dirs
                            THEN Ok(up.disk) ELSE again
            ELSE IF dk[p] \in Dirs THEN Ok(dk) ELSE r

\* p.write_text(content)
Path_write_text(dk, p, content) ==
    LET par == entry(dk, Parent(p))
    IN IF par = "absent" THEN Fail(dk, "FileNotFoundError")
       ELSE IF par \notin Dirs THEN Fail(dk, "NotADirectoryError")
       ELSE IF dk[p] \in Dirs THEN Fail(dk, "IsADirectoryError")
       ELSE IF dk[p] = "absent" /\ par = "rodir" THEN Fail(dk, "PermissionError")
       ELSE Ok([dk EXCEPT ![p] = content])

Path_exists(dk, p) == dk[p] # "absent"

\* p.unlink()
Path_unlink(dk, p) ==
    IF dk[p] = "absent" THEN Fail(dk, "FileNotFoundError")
    ELSE IF entry(dk, Parent(p)) = "rodir" THEN Fail(dk, "PermissionError")
    ELSE IF dk[p] \in Dirs THEN Fail(dk, "IsADirectoryError")
    ELSE Ok([dk EXCEPT ![p] = "absent"])

\* any(p.iterdir()) for a directory p
any_iterdir(dk, p) == \E q \in TxPaths : Parent(q) = p /\ dk[q] # "absent"

\* p.rmdir()
Path_rmdir(dk, p) ==
    IF dk[p] = "absent" THEN Fail(dk, "FileNotFoundError")
    ELSE IF entry(dk, Parent(p)) = "rodir" THEN Fail(dk, "PermissionError")
    ELSE IF dk[p] \notin Dirs THEN Fail(dk, "NotADirectoryError")
    ELSE IF any_iterdir(dk, p) THEN Fail(dk, "OSError")
    ELSE Ok([dk EXCEPT ![p] = "absent"])

\* Transaction()
Transaction == [created_files |-> <<>>, created_dirs |-> <<>>, committed |-> FALSE]

\* Transaction.write_file(path, content): the tree and the transaction
\* afterwards, and the exception it raised if any.
Transaction_write_file(dk, t, path, content) ==
    LET m == Path_mkdir(dk, Parent(path))
        w == Path_write_text(m.disk, path, content)
    IN IF m.exc # "none" THEN [disk |-> m.disk, tx |-> t, exc |-> m.exc]
       ELSE IF w.exc # "none" THEN [disk |-> w.disk, tx |-> t, exc |-> w.exc]
       ELSE [disk |-> w.disk,
             tx |-> [t EXCEPT !.created_files = Append(@, path)],
             exc |-> "none"]

\* Transaction.create_dir(path)
Transaction_create_dir(dk, t, path) ==
    LET m == Path_mkdir(dk, path)
    IN IF m.exc # "none" THEN [disk |-> m.disk, tx |-> t, exc |-> m.exc]
       ELSE [disk |-> m.disk,
             tx |-> [t EXCEPT !.created_dirs = Append(@, path)],
             exc |-> "none"]

\* Transaction.commit()
Transaction_commit(t) == [t EXCEPT !.committed = TRUE]

reversed(seq) == [i \in 1..Len(seq) |-> seq[Len(seq) + 1 - i]]

\* for f in fs: try: (if f.exists(): f.unlink()) except OSError: warning
RECURSIVE remove_files(_, _)
remove_files(dk, fs) ==
    IF fs = <<>> THEN [disk |-> dk, warnings |-> <<>>]
    ELSE LET u == IF Path_exists(dk, fs[1]) THEN Path_unlink(dk, fs[1]) ELSE Ok(dk)
             rest == remove_files(u.disk, Tail(fs))
         IN [disk |-> rest.disk,
             warnings |-> (IF u.exc # "none" THEN <<fs[1]>> ELSE <<>>)
                              \o rest.warnings]

\* for d in ds: try: (if d.exists() and not any(d.iterdir()): d.rmdir())
\* except OSError: warning
RECURSIVE remove_dirs(_, _)
remove_dirs(dk, ds) ==
    IF ds = <<>> THEN [disk |-> dk, warnings |-> <<>>]
    ELSE LET u == IF Path_exists(dk, ds[1]) /\ ~any_iterdir(dk, ds[1])
                  THEN Path_rmdir(dk, ds[1]) ELSE Ok(dk)
             rest == remove_dirs(u.disk, Tail(ds))
         IN [disk |-> rest.disk,
             warnings |-> (IF u.exc # "none" THEN <<ds[1]>> ELSE <<>>)
                              \o rest.warnings]

\* rollback() that does not look at _committed
Transaction_rollback_after_commit(dk, t) ==
    LET a == remove_files(dk, reversed(t.created_files))
        b == remove_dirs(a.disk, reversed(t.created_dirs))
    IN [disk |-> b.disk, warnings |-> a.warnings \o b.warnings]

\* Transaction.rollback(): the tree afterwards and the paths whose removal
\* failed and was logged.
Transaction_rollback(dk, t) ==
    IF t.committed THEN [disk |-> dk, warnings |-> <<>>]
    ELSE LET a == remove_files(dk, reversed(t.created_files))
             b == remove_dirs(a.disk, reversed(t.created_dirs))
         IN [disk |-> b.disk, warnings |-> a.warnings \o b.warnings]

\* classes outside Exception: `except Exception` does not catch them
BaseExceptionsOnly == {"KeyboardInterrupt", "SystemExit", "GeneratorExit"}

\* transaction() that commits whether or not the block raised
FileSystemAdapter_transaction_commit_always(dk, t, exc) ==
    [disk |-> dk, tx |-> Transaction_commit(t),
     ret |-> IF exc = "none" THEN Return("None") ELSE Raise(exc),
     rolled_back |-> FALSE, warnings |-> <<>>]

\* FileSystemAdapter.transaction(): what happens when the with-block ends,
\* normally (exc = "none") or with the exception exc.
FileSystemAdapter_transaction(dk, t, exc) ==
    IF exc = "none"
    THEN [disk |-> dk, tx |-> Transaction_commit(t), ret |-> Return("None"),
          rolled_back |-> FALSE, warnings |-> <<>>]
    ELSE IF exc \notin BaseExceptionsOnly
    THEN LET r == Transaction_rollback(dk, t)
         IN [disk |-> r.disk, tx |-> t, ret |-> Raise(exc),
             rolled_back |-> TRUE, warnings |-> r.warnings]
    ELSE [disk |-> dk, tx |-> t, ret |-> Raise(exc),
          rolled_back |-> FALSE, warnings |-> <<>>]

AdapterIdle ==
    /\ disk = [p \in TxPaths |-> "absent"]
    /\ disk0 = disk
    /\ tx = Transaction
    /\ txpc = "idle"

\* reserve_pypi has not been called
ReserveIdle ==
    /\ registry = "free"
    /\ rsv = [pc |-> "idle"]
    /\ calls = <<>>

(***************************************************************************)
(* adapters/pypi.py and core/reserver.py.  registry is who holds the name  *)
(* on PyPI: "free", "mine" (the caller) or "other".  Text read from a      *)
(* subprocess is a sequence of characters.                                 *)
(***************************************************************************)
AvailabilityStatus == {"AVAILABLE", "TAKEN", "ERROR"}

RESERVE_VERSION == "0.0.1.dev0"

UpperCase == <<"A", "B", "C", "D", "E", "F", "G", "H", "I", "J", "K", "L", "M",
               "N", "O", "P", "Q", "R", "S", "T", "U", "V", "W", "X", "Y", "Z">>
LowerCase == <<"a", "b", "c", "d", "e", "f", "g", "h", "i", "j", "k", "l", "m",
               "n", "o", "p", "q", "r", "s", "t", "u", "v", "w", "x", "y", "z">>

\* text.lower()
lower(text) ==
    [i \in 1..Len(text) |->
        IF \E k \in 1..26 : UpperCase[k] = text[i]
        THEN LowerCase[CHOOSE k \in 1..26 : UpperCase[k] = text[i]]
        ELSE text[i]]

\* needle in text
contains(text, needle) ==
    \E i \in 0..(Len(text) - Len(needle)) :
        SubSeq(text, i + 1, i + Len(needle)) = needle

ALREADY_EXISTS == <<"a", "l", "r", "e", "a", "d", "y", " ", "e", "x", "i", "s", "t", "s">>

\* stderr of a failed `uv publish`, by what went wrong
PublishErrors(kind) ==
    IF kind = "exists"
    THEN {<<"F", "i", "l", "e", " ", "a", "l", "r", "e", "a", "d", "y", " ", "e", "x", "i", "s", "t", "s">>,
          <<"4", "0", "0", " ", "F", "i", "l", "e", " ", "A", "l", "r", "e", "a", "d", "y", " ", "E", "x", "i", "s", "t", "s">>}
    ELSE {<<"n", "e", "t", "w", "o", "r", "k", " ", "t", "i", "m", "e", "o", "u", "t">>,
          <<"4", "0", "3", " ", "F", "o", "r", "b", "i", "d", "d", "e", "n">>}

\* stderr of a failed `uv build`
BuildError == <<"c", "o", "m", "p", "i", "l", "e", " ", "e", "r", "r", "o", "r">>

\* not name or not name.strip()
is_blank(name) == name \in {"", " "}

\* PyPIAdapter.check_availability(name) when the name is held by reg and
\* the request ends as http: "ok", "timeout" (httpx.HTTPError), "500", or
\* "404" (the project page is not listed, whoever uploaded a file of that
\* name: the case test_reserve_already_exists sets up).
check_availability(name, reg, http) ==
    IF is_blank(name) THEN "ERROR"
    ELSE IF http = "timeout" THEN "ERROR"
    ELSE LET status_code == IF http = "500" THEN 500
                            ELSE IF http = "404" THEN 404
                            ELSE IF reg = "free" THEN 404 ELSE 200
         IN IF status_code = 404 THEN "AVAILABLE"
            ELSE IF status_code = 200 THEN "TAKEN"
            ELSE "ERROR"

ReserveResult(success, package_name, version, message) ==
    BaseModel_init("ReserveResult",
        [success |-> success, package_name |-> package_name,
         version |-> version, message |-> message], {})

\* reserve_pypi going on to create the package although dry_run is set
reserve_check_ignoring_dry_run(name, dry_run, reg, http) ==
    LET status == check_availability(name, reg, http)
    IN IF status = "TAKEN"
       THEN [status |-> status, returns |-> TRUE,
             ret |-> ReserveResult(FALSE, name, RESERVE_VERSION,
                        <<"Package '", name, "' is already taken on PyPI">>)]
       ELSE IF status = "ERROR"
       THEN [status |-> status, returns |-> TRUE,
             ret |-> ReserveResult(FALSE, name, RESERVE_VERSION,
                        <<"Failed to check PyPI availability">>)]
       ELSE [status |-> status, returns |-> FALSE, ret |-> NoResult]

\* reserve_pypi up to its first return or to the temporary directory:
\* the availability status and the result returned, if any.
reserve_check(name, dry_run, reg, http) ==
    LET status == check_availability(name, reg, http)
    IN IF status = "TAKEN"
       THEN [status |-> status, returns |-> TRUE,
             ret |-> ReserveResult(FALSE, name, RESERVE_VERSION,
                        <<"Package '", name, "' is already taken on PyPI">>)]
       ELSE IF status = "ERROR"
       THEN [status |-> status, returns |-> TRUE,
             ret |-> ReserveResult(FALSE, name, RESERVE_VERSION,
                        <<"Failed to check PyPI availability">>)]
       ELSE IF dry_run
       THEN [status |-> status, returns |-> TRUE,
             ret |-> ReserveResult(TRUE, name, RESERVE_VERSION,
                        <<"Dry run - would reserve '", name, "' on PyPI">>)]
       ELSE [status |-> status, returns |-> FALSE, ret |-> NoResult]

\* reserve_pypi after a failed build
reserve_build_failed(name, error) ==
    ReserveResult(FALSE, name, RESERVE_VERSION, <<"Build failed: ">> \o error)

\* the test on the error text as it is, without lower()
rechecks_case_sensitive(success, error) ==
    ~success /\ contains(error, ALREADY_EXISTS)

\* not success and "already exists" in error.lower(): the code re-checks
rechecks(success, error) == ~success /\ contains(lower(error), ALREADY_EXISTS)

\* reserve_pypi after publish_package returned (success, error); recheck is
\* the status the second check_availability returns when it is made.
reserve_published(name, success, error, recheck) ==
    IF ~success
    THEN IF rechecks(success, error)
         THEN IF recheck = "TAKEN"
              THEN ReserveResult(FALSE, name, RESERVE_VERSION,
                       <<"Package '", name, "' was taken by another user ",
                         "between availability check and publish">>)
              ELSE ReserveResult(TRUE, name, RESERVE_VERSION,
                       <<"Package '", name, "' already reserved">>)
         ELSE ReserveResult(FALSE, name, RESERVE_VERSION,
                  <<"Publish failed: ">> \o error)
    ELSE ReserveResult(TRUE, name, RESERVE_VERSION,
             <<"Reserved '", name, "' on PyPI (version ", RESERVE_VERSION, ")">>)

(***************************************************************************)
(* adapters/credentials.py.  A token or password is a sequence of          *)
(* characters; an optional value is the empty sequence (None, unset, no    *)
(* such option) or the sequence of its one value.  ~/.pypirc is absent or  *)
(* a well-formed INI file: for every section name, no section or the       *)
(* section's username and password options.                                *)
(***************************************************************************)
None == <<>>
Some(v) == <<v>>

SectionNames == {"pypi", "server-login", "testpypi"}

NoPypirc ==
    [exists |-> FALSE, mode |-> "none", sections |-> [n \in SectionNames |-> None]]

\* text.startswith(prefix)
startswith(text, prefix) ==
    Len(text) >= Len(prefix) /\ SubSeq(text, 1, Len(prefix)) = prefix

PYPI_PREFIX == <<"p", "y", "p", "i", "-">>
TOKEN_USER == <<"_", "_", "t", "o", "k", "e", "n", "_", "_">>

\* config = ConfigParser(); config.read(path) if the file exists
ConfigParser_read(rc) ==
    IF rc.exists THEN rc.sections ELSE [n \in SectionNames |-> None]

\* for section in [...]: if has_section and has_option(section, "password"):
\* return config.get(section, "password"); None after the loop
RECURSIVE first_password(_, _)
first_password(config, names) ==
    IF names = <<>> THEN None
    ELSE IF config[names[1]] # None /\ config[names[1]][1].password # None
    THEN config[names[1]][1].password
    ELSE first_password(config, Tail(names))

\* ConfigParser.get(section, option) expands the stored value: "%%" stands
\* for "%", and a "%" followed by anything but "%" or "(" raises
\* InterpolationSyntaxError.  ("%(" starts a reference to another option; no
\* value considered here holds one.)
RECURSIVE before_get(_)
before_get(value) ==
    IF value = <<>> THEN [exc |-> "none", value |-> <<>>]
    ELSE IF value[1] # "%"
    THEN LET rest == before_get(Tail(value))
         IN [exc |-> rest.exc, value |-> <<value[1]>> \o rest.value]
    ELSE IF Len(value) >= 2 /\ value[2] = "%"
    THEN LET rest == before_get(SubSeq(value, 3, Len(value)))
         IN [exc |-> rest.exc, value |-> <<"%">> \o rest.value]
    ELSE [exc |-> "InterpolationSyntaxError", value |-> <<>>]

\* ConfigParser.set(section, option, value) raises ValueError when a "%" is
\* left in the value after every "%%" is taken out
RECURSIVE before_set(_)
before_set(value) ==
    IF value = <<>> THEN "none"
    ELSE IF value[1] # "%" THEN before_set(Tail(value))
    ELSE IF Len(value) >= 2 /\ value[2] = "%"
    THEN before_set(SubSeq(value, 3, Len(value)))
    ELSE "ValueError"

\* CredentialManager.get_pypi_token(), with os.environ.get("PYPI_API_TOKEN")
\* as env: the token found (None when there is none), or the exception
\* config.get raises
get_pypi_token(env, rc) ==
    IF env # None /\ env[1] # <<>> THEN [exc |-> "none", token |-> env]
    ELSE IF rc.exists
    THEN LET raw == first_password(ConfigParser_read(rc), <<"pypi", "server-login">>)
         IN IF raw = None THEN [exc |-> "none", token |-> None]
            ELSE LET got == before_get(raw[1])
                 IN IF got.exc # "none" THEN [exc |-> got.exc, token |-> None]
                    ELSE [exc |-> "none", token |-> Some(got.value)]
    ELSE [exc |-> "none", token |-> None]

validate_token(token) ==
    IF token = <<>> THEN FALSE ELSE startswith(token, PYPI_PREFIX)

\* save_pypi_token() that starts from an empty configuration
save_pypi_token_fresh(rc, token, io) ==
    LET written == [[n \in SectionNames |-> None] EXCEPT
                       !["pypi"] = Some([username |-> Some(TOKEN_USER),
                                         password |-> Some(token)])]
    IN IF before_set(token) # "none"
       THEN [pypirc |-> rc, ret |-> FALSE, exc |-> before_set(token)]
       ELSE IF io = "write_fails"
       THEN [pypirc |-> rc, ret |-> FALSE, exc |-> "none"]
       ELSE IF io = "chmod_fails"
       THEN [pypirc |-> [exists |-> TRUE, sections |-> written,
                         mode |-> IF rc.exists THEN rc.mode ELSE "0644"],
             ret |-> FALSE, exc |-> "none"]
       ELSE [pypirc |-> [exists |-> TRUE, sections |-> written, mode |-> "0600"],
             ret |-> TRUE, exc |-> "none"]

\* CredentialManager.save_pypi_token(token): the file afterwards and the
\* value returned.  io tells how the write ends: "ok", "write_fails"
\* (write_text raises when it opens the file) or "chmod_fails".
save_pypi_token(rc, token, io) ==
    LET config == ConfigParser_read(rc)
        section == IF config["pypi"] = None
                   THEN [username |-> None, password |-> None]
                   ELSE config["pypi"][1]
        written == [config EXCEPT
                       !["pypi"] = Some([section EXCEPT
                                            !.username = Some(TOKEN_USER),
                                            !.password = Some(token)])]
    IN IF before_set(token) # "none"
       THEN [pypirc |-> rc, ret |-> FALSE, exc |-> before_set(token)]
       ELSE IF io = "write_fails"
       THEN [pypirc |-> rc, ret |-> FALSE, exc |-> "none"]
       ELSE IF io = "chmod_fails"
       THEN [pypirc |-> [exists |-> TRUE, sections |-> written,
                         mode |-> IF rc.exists THEN rc.mode ELSE "0644"],
             ret |-> FALSE, exc |-> "none"]
       ELSE [pypirc |-> [exists |-> TRUE, sections |-> written, mode |-> "0600"],
             ret |-> TRUE, exc |-> "none"]

\* CredentialManager.resolve_pypi_token(interactive=...): what it returns
\* or exits with, whether getpass was called, and ~/.pypirc afterwards.
\* isatty is sys.stdin.isatty(), typed what getpass returns.
resolve_pypi_token(env, rc, interactive, isatty, typed, io) ==
    LET found == get_pypi_token(env, rc)
        token == found.token
    IN IF found.exc # "none"
       THEN [ret |-> Raise(found.exc), prompted |-> FALSE, pypirc |-> rc]
       ELSE IF token # None /\ token[1] # <<>>
       THEN [ret |-> Return(token[1]), prompted |-> FALSE, pypirc |-> rc]
       ELSE IF ~interactive \/ ~isatty
       THEN [ret |-> Exit(1, <<>>, <<"Error: No PyPI token found.">>),
             prompted |-> FALSE, pypirc |-> rc]
       ELSE IF ~validate_token(typed)
       THEN [ret |-> Exit(1, <<"No PyPI token found.">>,
                          <<"Error: Invalid token (must start with 'pypi-').">>),
             prompted |-> TRUE, pypirc |-> rc]
       ELSE LET saved == save_pypi_token(rc, typed, io)
            IN IF saved.exc # "none"
               THEN [ret |-> Raise(saved.exc), prompted |-> TRUE, pypirc |-> rc]
               ELSE [ret |-> Return(typed), prompted |-> TRUE,
                     pypirc |-> saved.pypirc]

(***************************************************************************)
(* adapters/copier.py.  The descriptor table of the process maps each      *)
(* descriptor below the limit MaxFd to the open file it refers to, or to   *)
(* "closed"; os.open and os.dup hand out the lowest closed descriptor.     *)
(***************************************************************************)
MaxFd == 6
Fds == 0..(MaxFd - 1)

StdFds ==
    [d \in Fds |-> IF d = 0 THEN "stdin" ELSE IF d = 1 THEN "stdout"
                   ELSE IF d = 2 THEN "stderr" ELSE "closed"]
StdSys == [stdout |-> "sys.__stdout__", stderr |-> "sys.__stderr__"]

HostIdle ==
    /\ environ = None
    /\ pypirc = NoPypirc
    /\ fds = StdFds
    /\ sys = StdSys

lowest_free(t) ==
    IF \A d \in Fds : t[d] # "closed" THEN -1
    ELSE CHOOSE d \in Fds : t[d] = "closed" /\ \A e \in Fds : e < d => t[e] # "closed"

\* The frame of copy(): the table, sys.stdout and sys.stderr, the three
\* local descriptors, and the exception in flight ("none" when there is none)
Frame(t, sy) ==
    [fds |-> t, sys |-> sy, devnull |-> -1, old_fd_out |-> -1,
     old_fd_err |-> -1, exc |-> "none"]

\* the one element of a one-element set
Only(S) == CHOOSE r \in S : TRUE

\* devnull = os.open(os.devnull, os.O_WRONLY)
os_open(c, fails) ==
    IF fails \/ lowest_free(c.fds) = -1 THEN [c EXCEPT !.exc = "OSError"]
    ELSE [c EXCEPT !.fds[lowest_free(c.fds)] = "/dev/null",
                   !.devnull = lowest_free(c.fds)]

\* old_fd_out = os.dup(1)
os_dup_1(c, fails) ==
    IF fails \/ c.fds[1] = "closed" \/ lowest_free(c.fds) = -1
    THEN [c EXCEPT !.exc = "OSError"]
    ELSE [c EXCEPT !.fds[lowest_free(c.fds)] = c.fds[1],
                   !.old_fd_out = lowest_free(c.fds)]

\* old_fd_err = os.dup(2)
os_dup_2(c, fails) ==
    IF fails \/ c.fds[2] = "closed" \/ lowest_free(c.fds) = -1
    THEN [c EXCEPT !.exc = "OSError"]
    ELSE [c EXCEPT !.fds[lowest_free(c.fds)] = c.fds[2],
                   !.old_fd_err = lowest_free(c.fds)]

\* os.dup2(fd, fd2)
os_dup2(c, fd, fd2) ==
    IF c.fds[fd] = "closed" THEN [c EXCEPT !.exc = "OSError"]
    ELSE [c EXCEPT !.fds[fd2] = c.fds[fd]]

\* os.close(fd)
os_close(c, fd) ==
    IF c.fds[fd] = "closed" THEN [c EXCEPT !.exc = "OSError"]
    ELSE [c EXCEPT !.fds[fd] = "closed"]

\* if old_fd_out != -1: os.dup2(old_fd_out, 1); os.close(old_fd_out);
\* old_fd_out = -1
restore_out(c) ==
    IF c.exc # "none" \/ c.old_fd_out = -1 THEN c
    ELSE Only({IF y.exc # "none" THEN y ELSE [y EXCEPT !.old_fd_out = -1] :
                 y \in {IF x.exc # "none" THEN x ELSE os_close(x, x.old_fd_out) :
                          x \in {os_dup2(c, c.old_fd_out, 1)}}})

\* if old_fd_err != -1: os.dup2(old_fd_err, 2); os.close(old_fd_err);
\* old_fd_err = -1
restore_err(c) ==
    IF c.exc # "none" \/ c.old_fd_err = -1 THEN c
    ELSE Only({IF y.exc # "none" THEN y ELSE [y EXCEPT !.old_fd_err = -1] :
                 y \in {IF x.exc # "none" THEN x ELSE os_close(x, x.old_fd_err) :
                          x \in {os_dup2(c, c.old_fd_err, 2)}}})

\* if devnull != -1: os.close(devnull); devnull = -1
close_devnull(c) ==
    IF c.exc # "none" \/ c.devnull = -1 THEN c
    ELSE Only({IF x.exc # "none" THEN x ELSE [x EXCEPT !.devnull = -1] :
                 x \in {os_close(c, c.devnull)}})

\* sys.stdout = old_stdout; sys.stderr = old_stderr
restore_sys(c) ==
    IF c.exc # "none" THEN c ELSE [c EXCEPT !.sys = StdSys]

\* _cleanup_fds(), entered with no exception in flight; it stops at the
\* first call that raises
_cleanup_fds(c0) ==
    Only({restore_sys(d) :
            d \in {close_devnull(b) :
                     b \in {restore_err(a) :
                              a \in {restore_out(s) :
                                       s \in {[c0 EXCEPT !.exc = "none"]}}}}})

\* the try block up to run_copy: sys.stdout and sys.stderr replaced, the
\* three descriptors acquired, 1 and 2 redirected.  inject names the call
\* that fails for a reason outside the table ("none": no such failure).
redirect(c0, inject) ==
    Only({IF e.exc # "none" THEN e ELSE os_dup2(e, e.devnull, 2) :
            e \in {IF d.exc # "none" THEN d ELSE os_dup2(d, d.devnull, 1) :
                     d \in {IF b.exc # "none" THEN b
                            ELSE os_dup_2(b, inject = "dup(2)") :
                              b \in {IF a.exc # "none" THEN a
                                     ELSE os_dup_1(a, inject = "dup(1)") :
                                       a \in {os_open(s, inject = "open") :
                                                s \in {[c0 EXCEPT !.sys =
                                                          [stdout |-> "StringIO",
                                                           stderr |-> "StringIO"]]}}}}}})

ScaffoldResult(success, path, message, files_created) ==
    BaseModel_init("ScaffoldResult",
        [success |-> success, path |-> path, message |-> message,
         files_created |-> files_created], {})

\* except Exception as e: _cleanup_fds(); return ScaffoldResult(success=False)
\* An exception raised inside the handler leaves copy().
copy_except(c, e) ==
    Only({IF k.exc # "none"
          THEN [fds |-> k.fds, sys |-> k.sys, ret |-> Raise(k.exc)]
          ELSE [fds |-> k.fds, sys |-> k.sys,
                ret |-> ScaffoldResult(FALSE, "/dest", <<"Copier failed: ", e>>, <<>>)] :
            k \in {_cleanup_fds(c)}})

\* run_copy(...) with its finally: _cleanup_fds(), and what follows it
copy_run(c, run, walk) ==
    Only({IF k.exc # "none" THEN copy_except(k, k.exc)
          ELSE IF run = "KeyboardInterrupt"
          THEN [fds |-> k.fds, sys |-> k.sys, ret |-> Raise(run)]
          ELSE IF run # "ok" THEN copy_except(k, run)
          ELSE IF walk # "ok" THEN copy_except(k, walk)
          ELSE [fds |-> k.fds, sys |-> k.sys,
                ret |-> ScaffoldResult(TRUE, "/dest",
                           <<"Project scaffolded via Copier">>, <<"f">>)] :
            k \in {_cleanup_fds(c)}})

\* CopierAdapter.copy(config) in a process with table t and sys objects sy:
\* the table and the objects afterwards, and what the call returns or
\* raises.  run is how run_copy ends ("ok" or the exception it raises), walk
\* how the walk of the destination ends.
CopierAdapter_copy(t, sy, inject, run, walk) ==
    Only({IF c.exc # "none" THEN copy_except(c, c.exc)
          ELSE copy_run(c, run, walk) :
            c \in {redirect(Frame(t, sy), inject)}})

(***************************************************************************)
(* Initial trees: an empty directory and the gold project of the tests.    *)
(***************************************************************************)
EmptyFiles == [p \in Paths |-> "absent"]

GoldFiles ==
    [p \in Paths |->
        IF p \in {"CHANGELOG.md", "../pyproject.toml", "../../pyproject.toml",
                  "../uv.lock", "../../uv.lock"}
        THEN "absent" ELSE "ok"]

GoldFacts ==
    {<<p, n>> : p \in Paths, n \in UNION {Needles(q) : q \in Paths}}
    \cap ({<<p, n>> \in Paths \X UNION {Needles(q) : q \in Paths} :
              /\ n \in Needles(p)
              /\ GoldFiles[p] = "ok"
              /\ n \notin {"PYPI_API_TOKEN", "codecov", "select:ALL",
                           "extend-select:ALL", "extend-select:B",
                           "extend-select:N", "## features", "## install",
                           "## develop", "## license"}})

Categories == {"None", ""} \cup VALID_CATEGORIES \cup {"invalid"}

NoCall == [op |-> "none"]

Init ==
    /\ \/ files = EmptyFiles /\ facts = {}
       \/ files = GoldFiles /\ facts = GoldFacts
    /\ edits = 0
    /\ input = <<>>
    /\ outcome = NoCall
    /\ ran = <<>>
    /\ AdapterIdle
    /\ ReserveIdle
    /\ HostIdle

FactsOf(p) == {f \in facts : f[1] = p}

\* create, delete, chmod or corrupt one path
SetStatus(p, s) ==
    /\ outcome = NoCall
    /\ edits < MaxEdits
    /\ s \in Statuses(p) \ {files[p]}
    /\ files' = [files EXCEPT ![p] = s]
    /\ facts' = IF s \in {"absent", "garbled"} THEN facts \ FactsOf(p) ELSE facts
    /\ edits' = edits + 1
    /\ UNCHANGED <<input, outcome, ran, adapterVars, reserveVars, hostVars>>

\* write one piece of content into a readable path
AddContent(p, n) ==
    /\ outcome = NoCall
    /\ edits < MaxEdits
    /\ files[p] = "ok"
    /\ n \in Needles(p)
    /\ <<p, n>> \notin facts
    /\ facts' = facts \cup {<<p, n>>}
    /\ edits' = edits + 1
    /\ UNCHANGED <<files, input, outcome, ran, adapterVars, reserveVars, hostVars>>

\* remove one piece of content
RemoveContent(p, n) ==
    /\ outcome = NoCall
    /\ edits < MaxEdits
    /\ files[p] = "ok"
    /\ <<p, n>> \in facts
    /\ facts' = facts \ {<<p, n>>}
    /\ edits' = edits + 1
    /\ UNCHANGED <<files, input, outcome, ran, adapterVars, reserveVars, hostVars>>

\* run() that also resolves the lock file of the project it audits
Run_writing_lock(category) ==
    /\ outcome = NoCall
    /\ LET r == Engine_run(category)
       IN /\ outcome' = [op |-> "run", category |-> category, ret |-> r.ret]
          /\ ran' = r.ran
    /\ files' = [files EXCEPT !["uv.lock"] = "ok"]
    /\ UNCHANGED <<facts, edits, input, adapterVars, reserveVars, hostVars>>

\* CheckEngine(project, category=category).run()
Run(category) ==
    /\ outcome = NoCall
    /\ LET r == Engine_run(category)
       IN /\ outcome' = [op |-> "run", category |-> category, ret |-> r.ret]
          /\ ran' = r.ran
    /\ UNCHANGED <<files, facts, edits, input, adapterVars, reserveVars, hostVars>>

Next ==
    \/ \E p \in Paths : \E s \in Statuses(p) : SetStatus(p, s)
    \/ \E p \in Paths : \E n \in Needles(p) : AddContent(p, n)
    \/ \E p \in Paths : \E n \in Needles(p) : RemoveContent(p, n)
    \/ \E c \in Categories : Run(c)

Spec == Init /\ [][Next]_vars

(***************************************************************************)
(* The audits of a member package of a uv workspace: the package holds a   *)
(* plain pyproject.toml and no uv.lock; the workspace root, its parent or  *)
(* its grandparent, holds a pyproject.toml with [tool.uv.workspace] and    *)
(* the uv.lock.                                                            *)
(***************************************************************************)
WorkspaceFiles(root) ==
    [p \in Paths |->
        IF p \in {PYPROJECT, root \o "/pyproject.toml", root \o "/uv.lock"}
        THEN "ok" ELSE "absent"]

WorkspaceFacts(root) == {<<root \o "/pyproject.toml", "[tool.uv.workspace]">>}

InitWorkspace ==
    /\ \E i \in 1..Len(Parents) :
          /\ files = WorkspaceFiles(Parents[i])
          /\ facts = WorkspaceFacts(Parents[i])
    /\ edits = 0
    /\ input = <<>>
    /\ outcome = NoCall
    /\ ran = <<>>
    /\ AdapterIdle
    /\ ReserveIdle
    /\ HostIdle

SpecWorkspace == InitWorkspace /\ [][Next]_vars


(***************************************************************************)
(* The command line: axm-init check PATH [--json] [--agent] [-c CATEGORY]  *)
(* run on a tree the same edits produced.                                  *)
(***************************************************************************)
Targets == {".", "Makefile"}
CliCategories == {"None", "tooling", "invalid"}

Check(path, json_output, agent, category) ==
    /\ outcome = NoCall
    /\ \E r \in {cli_check(path, json_output, agent, category)} :
          /\ outcome' = [op |-> "check", path |-> path,
                         json_output |-> json_output, agent |-> agent,
                         category |-> category, result |-> r.result,
                         ret |-> r.ret]
          /\ ran' = r.ran
    /\ UNCHANGED <<files, facts, edits, input, adapterVars, reserveVars, hostVars>>

NextCli ==
    \/ \E p \in Paths : \E s \in Statuses(p) : SetStatus(p, s)
    \/ \E p \in Paths : \E n \in Needles(p) : AddContent(p, n)
    \/ \E p \in Paths : \E n \in Needles(p) : RemoveContent(p, n)
    \/ \E t \in Targets, j \in BOOLEAN, a \in BOOLEAN, c \in CliCategories :
          Check(t, j, a, c)

SpecCli == Init /\ [][NextCli]_vars


(***************************************************************************)
(* A with-block on FileSystemAdapter.transaction(): the block calls        *)
(* write_file and create_dir on the transaction, then ends normally or     *)
(* with an exception; an exception raised by one of the calls ends it too. *)
(* Afterwards the caller may call rollback() on the transaction.           *)
(***************************************************************************)
MaxTxOps == 2

\* exceptions the block may raise on its own
BodyExceptions == {"RuntimeError", "KeyboardInterrupt"}

\* trees in which every entry lies in a directory
WellFormed(dk) == \A p \in TxPaths : dk[p] # "absent" => entry(dk, Parent(p)) \in Dirs

InitialDisks ==
    {dk \in [TxPaths -> {"absent", "old", "dir", "rodir"}] :
        /\ WellFormed(dk)
        /\ \A p \in TxPaths \ {"d"} : dk[p] # "rodir"}

InitTx ==
    /\ files = EmptyFiles /\ facts = {}
    /\ edits = 0
    /\ input = <<>>
    /\ outcome = NoCall
    /\ ran = <<>>
    /\ disk \in InitialDisks
    /\ disk0 = disk
    /\ tx = Transaction
    /\ txpc = "idle"
    /\ ReserveIdle
    /\ HostIdle

\* the with-block ends: commit, or rollback and re-raise
ExitWith(dk, t, exc) ==
    LET r == FileSystemAdapter_transaction(dk, t, exc)
    IN /\ disk' = r.disk
       /\ tx' = r.tx
       /\ txpc' = "done"
       /\ outcome' = [op |-> "transaction",
                      body |-> exc, ret |-> r.ret,
                      rolled_back |-> r.rolled_back, warnings |-> r.warnings]

\* with adapter.transaction() as tx:
Enter ==
    /\ txpc = "idle"
    /\ tx' = Transaction
    /\ disk0' = disk
    /\ txpc' = "body"
    /\ UNCHANGED <<files, facts, edits, input, outcome, ran, disk, reserveVars, hostVars>>

\* tx.write_file(path, content) inside the block
TxWriteFile(path, content) ==
    /\ txpc = "body"
    /\ Len(tx.created_files) + Len(tx.created_dirs) < MaxTxOps
    /\ LET r == Transaction_write_file(disk, tx, path, content)
       IN IF r.exc = "none"
          THEN /\ disk' = r.disk
               /\ tx' = r.tx
               /\ UNCHANGED <<txpc, outcome>>
          ELSE ExitWith(r.disk, r.tx, r.exc)
    /\ UNCHANGED <<files, facts, edits, input, ran, disk0, reserveVars, hostVars>>

\* tx.create_dir(path) inside the block
TxCreateDir(path) ==
    /\ txpc = "body"
    /\ Len(tx.created_files) + Len(tx.created_dirs) < MaxTxOps
    /\ LET r == Transaction_create_dir(disk, tx, path)
       IN IF r.exc = "none"
          THEN /\ disk' = r.disk
               /\ tx' = r.tx
               /\ UNCHANGED <<txpc, outcome>>
          ELSE ExitWith(r.disk, r.tx, r.exc)
    /\ UNCHANGED <<files, facts, edits, input, ran, disk0, reserveVars, hostVars>>

\* the block runs to its end
BodyReturns ==
    /\ txpc = "body"
    /\ ExitWith(disk, tx, "none")
    /\ UNCHANGED <<files, facts, edits, input, ran, disk0, reserveVars, hostVars>>

\* the block raises exc
BodyRaises(exc) ==
    /\ txpc = "body"
    /\ ExitWith(disk, tx, exc)
    /\ UNCHANGED <<files, facts, edits, input, ran, disk0, reserveVars, hostVars>>

\* tx.rollback() called after the block
Rollback ==
    /\ txpc = "done"
    /\ outcome.op = "transaction"
    /\ LET r == Transaction_rollback(disk, tx)
       IN /\ disk' = r.disk
          /\ outcome' = [op |-> "rollback", before |-> disk,
                         committed |-> tx.committed, warnings |-> r.warnings]
    /\ UNCHANGED <<files, facts, edits, input, ran, disk0, tx, txpc, reserveVars, hostVars>>

NextTx ==
    \/ Enter
    \/ \E p \in TxPaths, c \in {"new"} : TxWriteFile(p, c)
    \/ \E p \in TxPaths : TxCreateDir(p)
    \/ BodyReturns
    \/ \E e \in BodyExceptions : BodyRaises(e)
    \/ Rollback

SpecTx == InitTx /\ [][NextTx]_vars


(***************************************************************************)
(* One call of reserve_pypi(name, author, email, token, dry_run), in the   *)
(* steps at which PyPI can change under it: the availability check, the    *)
(* creation of the package in a temporary directory, the build, and the    *)
(* publish with the re-check.  Meanwhile someone else, or another run of   *)
(* the caller, may publish the name.                                       *)
(***************************************************************************)
Names == {"pkg", "my-lib", "", " "}
Https == {"ok", "timeout", "500", "404"}

InitReserve ==
    /\ files = EmptyFiles /\ facts = {}
    /\ edits = 0
    /\ input = <<>>
    /\ outcome = NoCall
    /\ ran = <<>>
    /\ AdapterIdle
    /\ HostIdle
    /\ registry \in {"free", "mine", "other"}
    /\ rsv = [pc |-> "idle"]
    /\ calls = <<>>

\* reserve_pypi(name, ..., dry_run) is called: availability check, the two
\* early returns and the dry run.  held remembers who held the name when the
\* check was made.
ReserveCall(name, dry_run, http) ==
    /\ rsv.pc = "idle"
    /\ LET c == reserve_check(name, dry_run, registry, http)
       IN /\ rsv' = [pc |-> IF c.returns THEN "done" ELSE "create",
                     name |-> name, dry_run |-> dry_run, status |-> c.status,
                     held |-> registry,
                     tmp |-> FALSE, build |-> "none", publish |-> "none",
                     error |-> <<>>, recheck |-> "none"]
          /\ outcome' = IF c.returns THEN [op |-> "reserve_pypi", ret |-> c.ret]
                        ELSE outcome
    /\ calls' = Append(calls, "check_availability")
    /\ UNCHANGED <<files, facts, edits, input, ran, adapterVars, registry, hostVars>>

\* with tempfile.TemporaryDirectory(): create_minimal_package(...)
CreatePackage ==
    /\ rsv.pc = "create"
    /\ rsv' = [rsv EXCEPT !.pc = "build", !.tmp = TRUE]
    /\ calls' = Append(calls, "create_minimal_package")
    /\ UNCHANGED <<files, facts, edits, input, outcome, ran, adapterVars, registry, hostVars>>

\* build_package(temp_path) returns (ok, error)
BuildPackage(ok) ==
    /\ rsv.pc = "build"
    /\ calls' = Append(calls, "build_package")
    /\ IF ok
       THEN /\ rsv' = [rsv EXCEPT !.pc = "publish", !.build = "ok"]
            /\ UNCHANGED outcome
       ELSE /\ rsv' = [rsv EXCEPT !.pc = "done", !.build = "fail",
                                  !.error = BuildError, !.tmp = FALSE]
            /\ outcome' = [op |-> "reserve_pypi",
                           ret |-> reserve_build_failed(rsv.name, BuildError)]
    /\ UNCHANGED <<files, facts, edits, input, ran, adapterVars, registry, hostVars>>

\* what `uv publish` can end as, given who holds the name
PublishKinds(reg) == IF reg = "free" THEN {"ok", "other"} ELSE {"exists", "other"}

\* publish_package(temp_path, token) returns; the call returns unless the
\* code goes on to re-check
PublishPackage(kind, error) ==
    /\ rsv.pc = "publish"
    /\ kind \in PublishKinds(registry)
    /\ error \in (IF kind = "ok" THEN {<<>>} ELSE PublishErrors(kind))
    /\ LET success == kind = "ok"
       IN /\ registry' = IF success THEN "mine" ELSE registry
          /\ calls' = Append(calls, "publish_package")
          /\ IF rechecks(success, error)
             THEN /\ rsv' = [rsv EXCEPT !.pc = "recheck", !.publish = kind,
                                        !.error = error]
                  /\ UNCHANGED outcome
             ELSE /\ rsv' = [rsv EXCEPT !.pc = "done", !.publish = kind,
                                        !.error = error, !.tmp = FALSE]
                  /\ outcome' = [op |-> "reserve_pypi",
                                 ret |-> reserve_published(rsv.name, success,
                                                           error, "none")]
    /\ UNCHANGED <<files, facts, edits, input, ran, adapterVars, hostVars>>

\* recheck = adapter.check_availability(name), and the return
Recheck(http) ==
    /\ rsv.pc = "recheck"
    /\ LET recheck == check_availability(rsv.name, registry, http)
       IN /\ rsv' = [rsv EXCEPT !.pc = "done", !.recheck = recheck,
                                !.tmp = FALSE]
          /\ outcome' = [op |-> "reserve_pypi",
                         ret |-> reserve_published(rsv.name, FALSE, rsv.error,
                                                   recheck)]
    /\ calls' = Append(calls, "check_availability")
    /\ UNCHANGED <<files, facts, edits, input, ran, adapterVars, registry, hostVars>>

\* the name is published by who while reserve_pypi is between its
\* availability check and its publish
Publishes(who) ==
    /\ rsv.pc \in {"create", "build", "publish"}
    /\ registry = "free"
    /\ registry' = who
    /\ UNCHANGED <<files, facts, edits, input, outcome, ran, adapterVars, rsv, calls, hostVars>>

NextReserve ==
    \/ \E n \in Names, d \in BOOLEAN, h \in Https : ReserveCall(n, d, h)
    \/ CreatePackage
    \/ \E ok \in BOOLEAN : BuildPackage(ok)
    \/ \E k \in {"ok", "exists", "other"},
          e \in {<<>>} \cup PublishErrors("exists") \cup PublishErrors("other") :
            PublishPackage(k, e)
    \/ \E h \in Https : Recheck(h)
    \/ \E who \in {"mine", "other"} : Publishes(who)

SpecReserve == InitReserve /\ [][NextReserve]_vars


(***************************************************************************)
(* One call of CredentialManager.resolve_pypi_token in a process whose     *)
(* environment and ~/.pypirc are any of the combinations below.            *)
(***************************************************************************)
EnvToken == <<"p", "y", "p", "i", "-", "e", "n", "v">>
FileToken == <<"p", "y", "p", "i", "-", "f", "i", "l", "e">>
LoginPassword == <<"h", "u", "n", "t", "e", "r", "2">>
UserName == <<"m", "e">>

Envs == {None, Some(<<>>), Some(EnvToken)}
PercentPassword == <<"1", "0", "0", "%">>
Passwords ==
    {None, Some(<<>>), Some(FileToken), Some(LoginPassword), Some(PercentPassword)}
Typed == {<<>>, <<"p", "y", "p", "i">>, <<"s", "e", "c", "r", "e", "t">>,
          <<"p", "y", "p", "i", "-", "n", "e", "w">>,
          <<"p", "y", "p", "i", "-", "%">>}

SectionsOf ==
    {None} \cup {Some([username |-> Some(UserName), password |-> pw]) :
                    pw \in Passwords}

Pypircs ==
    {NoPypirc} \cup
    {[exists |-> TRUE, mode |-> "0644", sections |-> sec] :
        sec \in {f \in [SectionNames -> SectionsOf] :
                    f["testpypi"] \in {None, Some([username |-> Some(UserName),
                                                  password |-> Some(FileToken)])}}}

InitCredentials ==
    /\ files = EmptyFiles /\ facts = {}
    /\ edits = 0
    /\ input = <<>>
    /\ outcome = NoCall
    /\ ran = <<>>
    /\ AdapterIdle
    /\ ReserveIdle
    /\ environ \in Envs
    /\ pypirc \in Pypircs
    /\ fds = StdFds
    /\ sys = StdSys

ResolvePypiToken(interactive, isatty, typed, io) ==
    /\ outcome = NoCall
    /\ \E r \in {resolve_pypi_token(environ, pypirc, interactive, isatty,
                                    typed, io)} :
          /\ pypirc' = r.pypirc
          /\ outcome' = [op |-> "resolve_pypi_token", interactive |-> interactive,
                         isatty |-> isatty, typed |-> typed, io |-> io,
                         before |-> pypirc, prompted |-> r.prompted,
                         ret |-> r.ret]
    /\ UNCHANGED <<files, facts, edits, input, ran, adapterVars, reserveVars,
                   environ, fds, sys>>

NextCredentials ==
    \E i \in BOOLEAN, t \in BOOLEAN, typed \in Typed,
       io \in {"ok", "write_fails", "chmod_fails"} :
        ResolvePypiToken(i, t, typed, io)

SpecCredentials == InitCredentials /\ [][NextCredentials]_vars


(***************************************************************************)
(* One call of CopierAdapter.copy in a process whose standard descriptors  *)
(* are open or closed and that holds some further descriptors.             *)
(***************************************************************************)
FdTables ==
    {[d \in Fds |-> IF d <= 2 THEN (IF d \in open THEN StdFds[d] ELSE "closed")
                    ELSE IF d - 2 <= used THEN "socket" ELSE "closed"] :
        open \in SUBSET {0, 1, 2}, used \in 0..(MaxFd - 3)}

RunCopyEnds == {"ok", "RuntimeError", "KeyboardInterrupt"}

InitCopier ==
    /\ files = EmptyFiles /\ facts = {}
    /\ edits = 0
    /\ input = <<>>
    /\ outcome = NoCall
    /\ ran = <<>>
    /\ AdapterIdle
    /\ ReserveIdle
    /\ environ = None
    /\ pypirc = NoPypirc
    /\ fds \in FdTables
    /\ sys = StdSys

Copy(inject, run, walk) ==
    /\ outcome = NoCall
    /\ \E r \in {CopierAdapter_copy(fds, sys, inject, run, walk)} :
          /\ fds' = r.fds
          /\ sys' = r.sys
          /\ outcome' = [op |-> "copy", inject |-> inject, run |-> run,
                         walk |-> walk, before |-> fds, ret |-> r.ret]
    /\ UNCHANGED <<files, facts, edits, input, ran, adapterVars, reserveVars,
                   environ, pypirc>>

NextCopier ==
    \E inject \in {"none", "open", "dup(1)", "dup(2)"}, run \in RunCopyEnds,
       walk \in {"ok", "OSError"} :
        Copy(inject, run, walk)

SpecCopier == InitCopier /\ [][NextCopier]_vars


(***************************************************************************)
(* Direct use of the models, as the unit tests do: building CheckResult    *)
(* values, folding them with from_checks, and calling the constructors.    *)
(***************************************************************************)
SampleCategories == {"x", "y"}
SampleWeights == {1, 17, 23}
SampleExtras == {{}, {"typo_field"}}
SampleScores == {0, 58, 100}

\* The list under test is still being built: no fold or constructor call yet.
Building == outcome.op \in {"none", "CheckResult"}

InitModels ==
    /\ files = EmptyFiles /\ facts = {}
    /\ edits = 0
    /\ input = <<>>
    /\ outcome = NoCall
    /\ ran = <<>>
    /\ AdapterIdle
    /\ ReserveIdle
    /\ HostIdle

\* CheckResult(name=..., ..., **extras), appended to the list under test
NewCheckResult(category, passed, weight, extras) ==
    /\ Building
    /\ Len(input) < MaxChecks
    /\ LET ret == BaseModel_init("CheckResult",
                      CheckResult(IF passed THEN "pass" ELSE "fail", category,
                                  passed, weight,
                                  IF passed THEN T("ok") ELSE T("bad"),
                                  IF passed THEN <<>> ELSE <<T("x")>>,
                                  IF passed THEN <<>> ELSE T("f")),
                      extras)
       IN /\ outcome' = [op |-> "CheckResult", extras |-> extras, ret |-> ret]
          /\ input' = IF ret.kind = "return" THEN Append(input, ret.value)
                      ELSE input
    /\ UNCHANGED <<files, facts, edits, ran, adapterVars, reserveVars, hostVars>>

\* CategoryScore(category=..., earned=..., total=..., **extras)
NewCategoryScore(category, extras) ==
    /\ Building
    /\ input # <<>>
    /\ outcome' = [op |-> "CategoryScore", extras |-> extras,
                   ret |-> BaseModel_init("CategoryScore",
                               CategoryScore_from_checks(category, input),
                               extras)]
    /\ UNCHANGED <<files, facts, edits, input, ran, adapterVars, reserveVars, hostVars>>

\* ProjectResult.from_checks(project_path, input)
FromChecks ==
    /\ Building
    /\ outcome' = [op |-> "from_checks", extras |-> {},
                   ret |-> Return(ProjectResult_from_checks(project_path, input))]
    /\ UNCHANGED <<files, facts, edits, input, ran, adapterVars, reserveVars, hostVars>>

\* ProjectResult(project_path=..., checks=input, score=..., grade=..., ...)
NewProjectResult(score, grade, extras) ==
    /\ Building
    /\ LET folded == ProjectResult_from_checks(project_path, input)
       IN outcome' = [op |-> "ProjectResult", extras |-> extras,
                      ret |-> BaseModel_init("ProjectResult",
                                  [folded EXCEPT !.via = "__init__",
                                                 !.score = score,
                                                 !.grade = grade],
                                  extras)]
    /\ UNCHANGED <<files, facts, edits, input, ran, adapterVars, reserveVars, hostVars>>

NextModels ==
    \/ \E c \in SampleCategories, p \in BOOLEAN, w \in SampleWeights,
          x \in SampleExtras : NewCheckResult(c, p, w, x)
    \/ \E c \in SampleCategories, x \in SampleExtras : NewCategoryScore(c, x)
    \/ FromChecks
    \/ \E sc \in SampleScores, g \in Grade, x \in SampleExtras :
          NewProjectResult(sc, g, x)

SpecModels == InitModels /\ [][NextModels]_vars


(***************************************************************************)
(* Properties.                                                             *)
(***************************************************************************)
Returned == outcome.op # "none" /\ outcome.ret.kind = "return"
Result == outcome.ret.value

Weights(checks) == SumSeq([i \in 1..Len(checks) |-> checks[i].weight])
Earned(checks) ==
    SumSeq([i \in 1..Len(checks) |-> IF checks[i].passed THEN checks[i].weight ELSE 0])

\* score is an integer nearest to 100 * e / t (either neighbour at an exact half)
Nearest(score, e, t) ==
    /\ 2 * (score * t - 100 * e) <= t
    /\ 2 * (100 * e - score * t) <= t

FullRun == outcome.op = "run" /\ outcome.category \in {"None", ""}

\* C1: the weights of all checks of the full registry sum to exactly 100,
\* whatever project is audited.
C1_WeightsSumTo100 ==
    (FullRun /\ Returned) => Weights(Result.checks) = 100

\* C2: from_checks sets score to the exact rational 100 * sum(earned) /
\* sum(weight) rounded to the nearest integer, exact halves to even; 0 when
\* the total weight is 0.
C2_ScoreIsExactRoundHalfEven ==
    (outcome.op = "from_checks") =>
        LET e == Earned(Result.checks)
            t == Weights(Result.checks)
        IN Result.score = IF t > 0 THEN RoundHalfEvenExact(100 * e, t) ELSE 0

\* C3: for every integer score s in 0..100 compute_grade(s) is A iff s >= 90,
\* B iff 75 <= s <= 89, C iff 60 <= s <= 74, D iff 40 <= s <= 59, F iff
\* s <= 39; and every ProjectResult built by from_checks carries the grade of
\* its score.
C3_GradeBands ==
    /\ \A s \in 0..100 :
          /\ (compute_grade(s) = "A") <=> (s >= 90)
          /\ (compute_grade(s) = "B") <=> (75 <= s /\ s <= 89)
          /\ (compute_grade(s) = "C") <=> (60 <= s /\ s <= 74)
          /\ (compute_grade(s) = "D") <=> (40 <= s /\ s <= 59)
          /\ (compute_grade(s) = "F") <=> (s <= 39)
    /\ (outcome.op = "from_checks") =>
          /\ Result.score \in 0..100
          /\ (Result.grade = "A") <=> (Result.score >= 90)
          /\ (Result.grade = "B") <=> (75 <= Result.score /\ Result.score <= 89)
          /\ (Result.grade = "C") <=> (60 <= Result.score /\ Result.score <= 74)
          /\ (Result.grade = "D") <=> (40 <= Result.score /\ Result.score <= 59)
          /\ (Result.grade = "F") <=> (Result.score <= 39)

C3_Witness ==
    /\ outcome.op = "from_checks"
    /\ Len(Result.checks) = 2
    /\ Result.grade = "D"

RegistryNames ==
    {"pyproject", "ci", "tooling", "docs", "structure", "deps", "changelog"}

\* The predicates registered under category c, called on the current tree.
Registered(c) ==
    LET g == CHOOSE i \in 1..Len(ALL_CHECKS) : ALL_CHECKS[i].category = c
    IN [i \in 1..Len(ALL_CHECKS[g].fns) |-> Call(ALL_CHECKS[g].fns[i])]

\* C4: run with a valid category c returns exactly the results of the
\* predicates registered under c, each with category c, and a score relative
\* to the total weight of that subset.
C4_CategoryFilter ==
    (outcome.op = "run" /\ outcome.category \in RegistryNames /\ Returned) =>
        LET reg == Registered(outcome.category)
            exp == [i \in 1..Len(reg) |-> reg[i].value]
        IN /\ Result.checks = exp
           /\ \A i \in 1..Len(Result.checks) :
                 Result.checks[i].category = outcome.category
           /\ Weights(exp) > 0
           /\ Nearest(Result.score, Earned(exp), Weights(exp))

C4_Witness ==
    /\ outcome.op = "run" /\ outcome.category = "structure" /\ Returned
    /\ Len(Result.checks) = 7
    /\ Result.score > 0 /\ Result.score < 100

\* C5: run with a non-empty category outside the registry raises ValueError
\* whose message carries the sorted valid names; it returns no ProjectResult
\* and calls no predicate.
C5_UnknownCategoryRaises ==
    (outcome.op = "run" /\ outcome.category \notin RegistryNames \cup {"None", ""}) =>
        /\ outcome.ret.kind = "raise"
        /\ outcome.ret.exc = "ValueError"
        /\ SubSeq(outcome.ret.msg, 4, Len(outcome.ret.msg)) =
              <<"changelog", ", ", "ci", ", ", "deps", ", ", "docs", ", ",
                "pyproject", ", ", "structure", ", ", "tooling">>
        /\ ran = <<>>

C5_Witness ==
    /\ outcome.op = "run" /\ outcome.category = "invalid"
    /\ outcome.ret.kind = "raise"
    /\ files = GoldFiles

NonEmptyText(t) == \E i \in 1..Len(t) : t[i] # ""

AllFns == Flatten(ALL_CHECKS)

\* C6: every CheckResult with passed = false that a registered predicate
\* returns, on any project tree, has a non-empty fix.
C6_FailuresCarryFix ==
    \A i \in 1..Len(AllFns) :
        LET r == Call(AllFns[i])
        IN (r.kind = "return" /\ ~r.value.passed) => NonEmptyText(r.value.fix)

C6_Witness ==
    /\ files[PRECOMMIT] = "ok" /\ ~exists(".git/hooks/pre-commit")
    /\ check_precommit_installed.kind = "return"
    /\ ~check_precommit_installed.value.passed

\* C7: with a valid or absent category run always returns a ProjectResult
\* with one result per selected predicate: no read error escapes a predicate.
C7_ReadErrorsNeverEscape ==
    (outcome.op = "run" /\ outcome.category \in RegistryNames \cup {"None", ""}) =>
        /\ outcome.ret.kind = "return"
        /\ Len(Result.checks) = Len(Flatten(checks_to_run(outcome.category)))

\* C8: when every selected predicate passes, run returns score 100, grade A
\* and no failures, for the full registry and for each category filter.
C8_AllPassIsPerfect ==
    (outcome.op = "run" /\ Returned
        /\ \A i \in 1..Len(Result.checks) : Result.checks[i].passed) =>
        /\ Result.score = 100
        /\ Result.grade = "A"
        /\ Result.failures = <<>>

C8_Witness ==
    /\ FullRun /\ Returned
    /\ Len(Result.checks) = 39
    /\ \A i \in 1..Len(Result.checks) : Result.checks[i].passed

IsProjectResult ==
    outcome.op \in {"from_checks", "ProjectResult", "run"} /\ Returned

C10_ExtraFieldsRejected ==
    (outcome.op \in {"CheckResult", "CategoryScore", "ProjectResult"}
        /\ outcome.extras # {}) =>
        (outcome.ret.kind = "raise" /\ outcome.ret.exc = "ValidationError")

\* checks with the checks at the indexes in S failing instead of passing
Demote(checks, S) ==
    [i \in 1..Len(checks) |->
        IF i \in S THEN [checks[i] EXCEPT !.passed = FALSE] ELSE checks[i]]

\* C11: for a fixed check list with fixed weights, the score of an outcome
\* whose passing checks include those of another outcome is at least the
\* other outcome's score.
C11_ScoreMonotone ==
    (outcome.op = "from_checks") =>
        \A S \in SUBSET {i \in 1..Len(Result.checks) : Result.checks[i].passed} :
            ProjectResult_from_checks(project_path,
                Demote(Result.checks, S)).score <= Result.score

C11_Witness ==
    /\ outcome.op = "from_checks"
    /\ Len(Result.checks) = 2
    /\ Result.checks[1].passed /\ ~Result.checks[2].passed
    /\ Result.checks[1].weight # Result.checks[2].weight
    /\ Result.score > 0 /\ Result.score < 100

\* C12: from_checks of an empty check list yields score 0, grade F, no
\* categories and no failures.
C12_EmptyFold ==
    (outcome.op = "from_checks" /\ input = <<>>) =>
        /\ Result.checks = <<>>
        /\ Result.score = 0
        /\ Result.grade = "F"
        /\ Result.categories = <<>>
        /\ Result.failures = <<>>

C12_Witness ==
    /\ outcome.op = "from_checks" /\ Returned
    /\ input = <<>>

\* Position of a category in the registry.
CatIndex(c) == CHOOSE i \in 1..Len(ALL_CHECKS) : ALL_CHECKS[i].category = c

\* C14: in the checks of every ProjectResult returned by run, categories
\* appear in registry order with each category's checks contiguous, and
\* within a category the checks are those of the registered predicates in
\* the registry's order.
C14_RegistryOrder ==
    (outcome.op = "run" /\ Returned) =>
        LET cs == Result.checks
        IN /\ \A i, j \in 1..Len(cs) :
                 i < j => CatIndex(cs[i].category) <= CatIndex(cs[j].category)
           /\ \A g \in 1..Len(ALL_CHECKS) :
                 LET c == ALL_CHECKS[g].category
                     sub == SelectSeq(cs, LAMBDA r : r.category = c)
                     reg == Registered(c)
                 IN sub = <<>> \/ sub = [i \in 1..Len(reg) |-> reg[i].value]

C14_Witness ==
    /\ FullRun /\ Returned
    /\ Len(Result.checks) = 39
    /\ Result.checks[1].category = "pyproject"
    /\ Result.checks[39].category = "changelog"
    /\ Result.failures # <<>>

\* C17: the categories of a ProjectResult built by from_checks hold exactly
\* one entry per distinct category of its checks, each with the sums of
\* earned and weight over that category's checks; a category whose checks
\* all pass appears with earned = total.
C17_CategoriesCoverChecks ==
    (outcome.op = "from_checks") =>
        LET cs == Result.checks
            cats == Result.categories
            of(c) == SelectSeq(cs, LAMBDA r : r.category = c)
        IN /\ {cats[k].category : k \in 1..Len(cats)}
                 = {cs[i].category : i \in 1..Len(cs)}
           /\ \A k, l \in 1..Len(cats) :
                 cats[k].category = cats[l].category => k = l
           /\ \A k \in 1..Len(cats) :
                 /\ cats[k].earned = Earned(of(cats[k].category))
                 /\ cats[k].total = Weights(of(cats[k].category))
                 /\ (\A i \in 1..Len(cs) :
                        cs[i].category = cats[k].category => cs[i].passed)
                       => cats[k].earned = cats[k].total

C17_Witness ==
    /\ outcome.op = "from_checks"
    /\ Len(Result.checks) = 2
    /\ Len(Result.categories) = 2
    /\ Result.categories[1].earned = Result.categories[1].total
    /\ Result.categories[2].earned = 0

\* C15: format_agent returns a mapping with exactly the keys score, grade,
\* passed_count and failed (no "passed" key); passed_count is the number of
\* passing checks and failed has one entry per failing check, in order,
\* each with exactly the keys name, message, details and fix.
C15_AgentFormat ==
    (outcome.op = "check" /\ outcome.agent /\ Len(outcome.ret.stdout) = 1) =>
        LET result == outcome.result.value
            out == outcome.ret.stdout[1]
            failing == SelectSeq(result.checks, LAMBDA c : ~c.passed)
        IN /\ DOMAIN out = {"score", "grade", "passed_count", "failed"}
           /\ out.score = result.score
           /\ out.grade = result.grade
           /\ out.passed_count + Len(failing) = Len(result.checks)
           /\ Len(out.failed) = Len(failing)
           /\ \A i \in 1..Len(failing) :
                 /\ DOMAIN out.failed[i] = {"name", "message", "details", "fix"}
                 /\ out.failed[i].name = failing[i].name
                 /\ out.failed[i].message = failing[i].message
                 /\ out.failed[i].details = failing[i].details
                 /\ out.failed[i].fix = failing[i].fix

C15_Witness ==
    /\ outcome.op = "check" /\ outcome.agent
    /\ Len(outcome.ret.stdout) = 1
    /\ outcome.ret.stdout[1].passed_count = 38
    /\ Len(outcome.ret.stdout[1].failed) = 1

\* C16: the check command exits 0 exactly when the target is a directory,
\* the requested category (if any) is valid and the score under the applied
\* filter is exactly 100; otherwise it exits non-zero.
C16_ExitCode ==
    (outcome.op = "check") =>
        ((outcome.ret.code = 0) <=>
            /\ outcome.path = "."
            /\ outcome.category \in RegistryNames \cup {"None", ""}
            /\ outcome.result.kind = "return"
            /\ outcome.result.value.score = 100)

C16_Witness ==
    /\ outcome.op = "check" /\ outcome.ret.code = 0
    /\ outcome.category = "tooling"
    /\ edits = 1

\* C18: a run leaves the tree as it was, with every path's status and
\* content unchanged, whether it returns a ProjectResult or raises.
C18_RunLeavesTreeUnchanged ==
    [][(outcome'.op = "run") => (files' = files /\ facts' = facts)]_vars

C18_Witness ==
    /\ outcome.op = "run"
    /\ edits = 1
    /\ files["uv.lock"] = "absent"
    /\ Len(ran) = 39

IsFile(dk, p) == dk[p] \notin Dirs \cup {"absent"}

Written == {tx.created_files[i] : i \in 1..Len(tx.created_files)}

C20_ReserveSuccess ==
    (outcome.op = "reserve_pypi") =>
        /\ outcome.ret.kind = "return"
        /\ outcome.ret.value.success <=>
              /\ rsv.status = "AVAILABLE"
              /\ \/ rsv.dry_run
                 \/ rsv.build = "ok" /\ rsv.publish = "ok"
                 \/ rsv.publish = "exists" /\ rsv.recheck # "TAKEN"

C20_Witness ==
    /\ outcome.op = "reserve_pypi"
    /\ outcome.ret.value.success
    /\ rsv.publish = "exists"
    /\ rsv.recheck = "AVAILABLE"

\* C23: in every execution of reserve_pypi the availability check comes
\* before any package creation, build or publish; none of the three is
\* invoked when the status is TAKEN or ERROR or when dry_run is true; and
\* publish is invoked only after a successful build.
Positions(call) == {i \in 1..Len(calls) : calls[i] = call}

PackageCalls == {"create_minimal_package", "build_package", "publish_package"}

C23_ReserveCallOrder ==
    /\ calls # <<>> => calls[1] = "check_availability"
    /\ (rsv.pc # "idle" /\ (rsv.status \in {"TAKEN", "ERROR"} \/ rsv.dry_run))
          => \A i \in 1..Len(calls) : calls[i] \notin PackageCalls
    /\ \A i \in Positions("publish_package") :
          /\ rsv.build = "ok"
          /\ \E j \in Positions("build_package") : j < i

C23_Witness ==
    /\ calls = <<"check_availability", "create_minimal_package",
                 "build_package", "publish_package">>
    /\ rsv.pc = "done"
    /\ outcome.ret.value.success

\* C24: when publish fails with 'already exists' after the availability
\* check said AVAILABLE, reserve_pypi re-checks availability and never
\* reports success for a name that someone else holds; it reports 'already
\* reserved' success only when the name is the caller's own reservation.
C24_NoSuccessForTakenName ==
    (outcome.op = "reserve_pypi" /\ rsv.pc = "done" /\ rsv.publish = "exists")
        => /\ rsv.recheck # "none"
           /\ outcome.ret.value.success => registry = "mine"

\* C25: a transaction whose body raises is atomic: after rollback the
\* filesystem is exactly as it was before the transaction began, every path
\* that existed keeps its content and nothing created during the
\* transaction, implicitly created parent directories included, remains.
C25_RollbackRestoresDisk ==
    (outcome.op = "transaction" /\ outcome.rolled_back) => disk = disk0

\* C26: once commit() has been called, a later rollback() is a no-op: every
\* file and directory the transaction created remains in place, whatever
\* write_file and create_dir calls came before the commit.
C26_RollbackAfterCommitIsNoOp ==
    (outcome.op = "rollback" /\ outcome.committed) =>
        /\ disk = outcome.before
        /\ outcome.warnings = <<>>
        /\ \A f \in Written : IsFile(disk, f)
        /\ \A i \in 1..Len(tx.created_dirs) : disk[tx.created_dirs[i]] \in Dirs

C26_Witness ==
    /\ outcome.op = "rollback" /\ outcome.committed
    /\ Len(tx.created_files) = 1 /\ Len(tx.created_dirs) = 1
    /\ disk0["d"] = "absent" /\ disk["d"] = "dir" /\ IsFile(disk, "h")

\* name, category and weight of the result fn returns on the current tree
\* (<<>> when it raises)
Identity(fn) ==
    LET r == Call(fn)
    IN IF r.kind = "return"
       THEN <<r.value.name, r.value.category, r.value.weight>>
       ELSE <<>>

\* C27: for each registered predicate the weight, name and category of the
\* result it returns are the same on every return path and for every project
\* content (no edit of the tree changes them, and the category is the one it
\* is registered under), and the names of the registered predicates are
\* pairwise distinct within a run.
C27_IdentityIsConstant ==
    /\ [](\A g \in 1..Len(ALL_CHECKS) : \A k \in 1..Len(ALL_CHECKS[g].fns) :
             LET id == Identity(ALL_CHECKS[g].fns[k])
             IN id # <<>> => id[2] = ALL_CHECKS[g].category)
    /\ []((outcome.op = "run" /\ Returned) =>
             \A i, j \in 1..Len(Result.checks) :
                 Result.checks[i].name = Result.checks[j].name => i = j)
    /\ [][(files' # files \/ facts' # facts) =>
             \A i \in 1..Len(AllFns) :
                 (Identity(AllFns[i]) # <<>> /\ Identity(AllFns[i])' # <<>>)
                     => Identity(AllFns[i])' = Identity(AllFns[i])]_vars

C27_Witness ==
    /\ FullRun /\ Returned /\ edits = 1
    /\ files["LICENSE"] = "absent" /\ files[PYPROJECT] = "ok"
    /\ \E i \in 1..Len(Result.checks) :
          Result.checks[i].name = "structure.license" /\ ~Result.checks[i].passed
    /\ \E i \in 1..Len(Result.checks) : Result.checks[i].passed

\* the pyproject.toml of the i-th parent can be read and declares
\* [tool.uv.workspace]
Declares(i) ==
    /\ files[Parents[i] \o "/pyproject.toml"] = "ok"
    /\ has(Parents[i] \o "/pyproject.toml", "[tool.uv.workspace]")

\* uv.lock is in the project directory or else in the nearest ancestor that
\* declares a workspace
LockExpected ==
    \/ exists("uv.lock")
    \/ \E i \in 1..Len(Parents) :
          /\ Declares(i)
          /\ \A j \in 1..(i - 1) : ~Declares(j)
          /\ exists(Parents[i] \o "/uv.lock")

\* C28: check_uv_lock passes if and only if uv.lock exists in the project
\* directory or, when it does not, the nearest ancestor whose pyproject.toml
\* declares [tool.uv.workspace] contains a uv.lock; ancestors without that
\* declaration are skipped and the search stops at the first workspace root,
\* even if that root has no lock file.
C28_UvLockFound ==
    (outcome.op = "run" /\ \E i \in 1..Len(ran) : ran[i] = "check_uv_lock") =>
        LockExpected <=>
            /\ Returned
            /\ \E i \in 1..Len(Result.checks) :
                  /\ Result.checks[i].name = "structure.uv_lock"
                  /\ Result.checks[i].passed

\* r is in the union of ruff's select and extend-select
Selected(r) == toml("select:" \o r) \/ toml("extend-select:" \o r)

\* C29: check_pyproject_ruff_rules passes if and only if the union of select
\* and extend-select contains ALL or every one of E, F, I, UP, B, S, BLE, PLR
\* and N; a select of only E, F, I, UP, B fails.
C29_RuffRulesRequired ==
    (outcome.op = "run" /\ Returned) =>
        \A i \in 1..Len(Result.checks) :
            Result.checks[i].name = "pyproject.ruff_rules" =>
                (Result.checks[i].passed <=>
                    /\ files[PYPROJECT] = "ok"
                    /\ Selected("ALL") \/ \A r \in RULES : Selected(r))

\* the password ~/.pypirc stores: that of [pypi], else that of [server-login]
StoredPassword(rc) ==
    IF ~rc.exists THEN None
    ELSE IF rc.sections["pypi"] # None /\ rc.sections["pypi"][1].password # None
    THEN rc.sections["pypi"][1].password
    ELSE IF rc.sections["server-login"] # None
    THEN rc.sections["server-login"][1].password
    ELSE None

Yields(opt) == opt # None /\ opt[1] # <<>>

\* C21: resolve_pypi_token returns the PYPI_API_TOKEN value when it is set,
\* otherwise the password stored in .pypirc, and never prompts in either
\* case; only when neither source yields a token does it prompt, and only if
\* interactive is true and stdin is a TTY; otherwise it exits with status 1.
C21_TokenResolution ==
    (outcome.op = "resolve_pypi_token") =>
        /\ Yields(environ) =>
              outcome.ret = Return(environ[1]) /\ ~outcome.prompted
        /\ (~Yields(environ) /\ Yields(StoredPassword(outcome.before))) =>
              /\ outcome.ret = Return(StoredPassword(outcome.before)[1])
              /\ ~outcome.prompted
        /\ (~Yields(environ) /\ ~Yields(StoredPassword(outcome.before))) =>
              /\ outcome.prompted <=> (outcome.interactive /\ outcome.isatty)
              /\ ~outcome.prompted =>
                    outcome.ret.kind = "exit" /\ outcome.ret.code = 1

\* C30: when the token entered at the prompt is empty or does not start with
\* 'pypi-', resolve_pypi_token exits with status 1 and .pypirc is left
\* unchanged; a token is written to .pypirc only after it has passed
\* validation, and writing it preserves every section already present.
C30_PromptedTokenValidated ==
    (outcome.op = "resolve_pypi_token") =>
        /\ (outcome.prompted /\ ~startswith(outcome.typed, PYPI_PREFIX)) =>
              /\ outcome.ret.kind = "exit" /\ outcome.ret.code = 1
              /\ pypirc = outcome.before
        /\ pypirc # outcome.before =>
              /\ outcome.prompted
              /\ startswith(outcome.typed, PYPI_PREFIX)
              /\ pypirc.sections["pypi"][1].password = Some(outcome.typed)
              /\ \A n \in SectionNames :
                    outcome.before.sections[n] # None =>
                        /\ pypirc.sections[n] # None
                        /\ n # "pypi" =>
                              pypirc.sections[n] = outcome.before.sections[n]

C30_Witness ==
    /\ outcome.op = "resolve_pypi_token"
    /\ outcome.before.exists
    /\ outcome.before.sections["testpypi"] # None
    /\ pypirc # outcome.before
    /\ pypirc.mode = "0600"
    /\ outcome.ret.kind = "return"

\* C22: on every return path of CopierAdapter.copy (success, failure of a
\* descriptor-acquisition step, or an exception raised by run_copy)
\* sys.stdout and sys.stderr are the objects they were before the call,
\* descriptors 1 and 2 point where they did before, every descriptor the
\* call acquired is closed, and the call returns a ScaffoldResult.
C22_CopyRestoresStdio ==
    (outcome.op = "copy") =>
        /\ sys = StdSys
        /\ fds[1] = outcome.before[1]
        /\ fds[2] = outcome.before[2]
        /\ \A d \in Fds : outcome.before[d] = "closed" => fds[d] = "closed"
        /\ outcome.ret.kind = "return"

====
